---- MODULE Spec2Model ----
(***************************************************************************)
(* A model of the incremental build / asset-emission engine of embroider:  *)
(* AppBuilder (implied-asset aggregation, entrypoint synthesis, the asset  *)
(* work queue, externals, package metadata) and BuildStage (the staged     *)
(* pipeline adapter with its one-shot readiness gate), together with the   *)
(* namespace tracker that AppBuilder drives, App.build of the compat       *)
(* package (the builder before it had a work queue), the document          *)
(* rewriting of CompatAppBuilder (updateJS, updateCSS) and the specifier   *)
(* rewriter of babel-plugin.ts.  Besides the build of a sound app there    *)
(* are specifications of the build over several passes, over documents     *)
(* with and without tests, and against an environment in which a declared  *)
(* asset has an unknown kind or a named file does not exist.               *)
(*                                                                         *)
(* Strings that the code takes apart are modelled as sequences: a path is  *)
(* a sequence of segments, and a segment is a sequence of atoms, so that   *)
(* "assets/app.js" is << <<"assets">>, <<"app", ".js">> >>.  startsWith,   *)
(* endsWith, dirname, join and relative are computed on that form.         *)
(***************************************************************************)
EXTENDS Naturals, Sequences, FiniteSets, TLC

VARIABLES
  addons,        \* names of the active addon descendants, in discovery order
  appName,       \* this.app.name
  pc,            \* position of AppBuilder.build in the current pass
  appDiffer,     \* the namespace tracker: "none" or the source dir it was built with
  appFiles,      \* the namespace (Set<string>, in iteration order)
  declared,      \* what the adapter set out to declare in the current pass
  assets,        \* adapter.assets(inputPaths) of the current pass
  queue,         \* the asset work queue
  jsEntrypoints, \* the entrypoint cache: the Map made by the last pass that got to make one
  processed,     \* assets passed to emitAsset in this pass, in order
  generated,     \* assets returned by insertEmberApp in this pass, in order
  docs,          \* documents that went through insertEmberApp, with their insertions
  entryCalls,    \* invocations of javascriptEntrypoint / testJSEntrypoint in this pass
  trace,         \* file-system and step events of this pass, in order
  error,         \* what the pass threw, if it aborted
  externals,     \* result of combineExternals
  diagnostics,   \* calls of unsupported(), in order
  meta,          \* the metadata stamped into package.json by this pass
  impliedOut,    \* result of the last impliedAssets call of the function-level spec
  active,        \* BuildStage.active
  outputPath,    \* BuildStage.outputPath
  packageCache,  \* BuildStage.packageCache
  deferReady,    \* the memoized one-shot promise: resolved or not
  cb,            \* the tree callbacks (one per WaitForTrees build), each with its position
  instances,     \* number of builder instances created by instantiate
  prevReadyCalls,\* number of prevStage.ready() calls issued by the stage
  waiters,       \* callers of BuildStage.ready()
  adapterAutoRun,\* adapter.autoRun()
  entryOut,      \* result of the last entrypoint generator call of the function-level spec
  srcFiles,      \* the source trees on disk: for each directory, the relative paths in it
  inputPaths,    \* the argument of build: where the app's own tree is in this pass
  differSeen,    \* the tracker's previous scan of each source directory
  differOwner,   \* the tracker's output location: for each relative path, whose file it is
  differsMade,   \* number of AppDiffer constructions by this builder
  opts,          \* the transform's options: ownName, basedir, rename
  sourceFileName,\* path.hub.file.opts.filename
  original,      \* source.value of the statement as parsed
  adjusted,      \* what adjustSpecifier returned for the statement
  sourceValue,   \* source.value of the statement
  emberCLIVanillaJobs, \* state.emberCLIVanillaJobs: the assignments queued for Program exit
  shouldRewriteRequire,\* state.shouldRewriteRequire
  rpc,           \* position of the traversal of the program
  reference,     \* a referenced identifier of the program: its name, its scope, its node
  firstRun,      \* the source value a first run of the transform left, once it runs again
  declarable,    \* the assets adapter.assets can answer with
  missing,       \* absolute paths that name no file on disk
  dom,           \* a document under updateJS / updateCSS: the child list that holds the element
  prevStageCache,\* the packageCache that prevStage.ready() resolves with, "none" if it has none
  babelMemo,     \* the memoized value of the babelConfig getter
  babelConfigJs  \* the plugins of the config in _babel_config_.js on disk

bvars == <<pc, appDiffer, appFiles, declared, assets, queue, jsEntrypoints, processed,
           generated, docs, entryCalls, trace, error, meta>>
evars == <<externals, diagnostics>>
svars == <<active, outputPath, packageCache, deferReady, cb, instances, prevReadyCalls, waiters>>
fvars == <<srcFiles, inputPaths, differSeen, differOwner, differsMade>>
rvars == <<opts, sourceFileName, original, adjusted, sourceValue, emberCLIVanillaJobs,
           shouldRewriteRequire, rpc, reference, firstRun>>
avars == <<declarable, missing, dom, prevStageCache, babelMemo, babelConfigJs>>
vars == <<addons, appName, avars, adapterAutoRun, entryOut, fvars, rvars, bvars, evars, impliedOut, svars>>

----------------------------------------------------------------------------
(* Bounds of the model *)

MaxAddons == 3
MaxAssets == 3
MaxCallbacks == 2
MaxWaiters == 2
MaxDiffers == 2
MaxFiles == 3
MaxEntryAddons == 2
MaxTrackerAddons == 2
MaxNodes == 3

----------------------------------------------------------------------------
(* Paths *)

Root == << <<"out">> >>

join(a, b) == a \o b

dirname(p) == IF Len(p) <= 1 THEN <<>> ELSE SubSeq(p, 1, Len(p) - 1)

RECURSIVE commonPrefixLen(_, _)
commonPrefixLen(a, b) ==
  IF a = <<>> \/ b = <<>> \/ Head(a) # Head(b) THEN 0
  ELSE 1 + commonPrefixLen(Tail(a), Tail(b))

\* path.relative(from, to): climb out of what is left of `from`, descend into `to`
relative(from, to) ==
  LET n == commonPrefixLen(from, to)
  IN [i \in 1..(Len(from) - n) |-> <<"..">>] \o SubSeq(to, n + 1, Len(to))

\* resolve.sync(mod, { basedir }): the absolute path of the module
resolveSync(mod, basedir) == join(basedir, mod)

RECURSIVE Flatten(_)
Flatten(seqs) == IF seqs = <<>> THEN <<>> ELSE Head(seqs) \o Flatten(Tail(seqs))

Range(s) == {s[i] : i \in DOMAIN s}

----------------------------------------------------------------------------
(* Packages: the dependency metadata the builder consumes *)

AddonNames == {"loader.js", "ember-source", "addon-a", "addon-b"}

ImplicitAssetTypes ==
  {"implicit-scripts", "implicit-styles", "implicit-test-scripts", "implicit-test-styles"}

\* addon.meta: a key that is absent reads as undefined
PkgMeta(name) ==
  CASE name = "loader.js" ->
         ("implicit-scripts" :> << << <<"vendor">>, <<"loader", ".js">> >> >>)
    [] name = "ember-source" ->
         ("implicit-scripts" :> << << <<"dist">>, <<"ember", ".js">> >> >>)
         @@ ("implicit-test-scripts" :> << << <<"dist">>, <<"ember-testing", ".js">> >> >>)
         @@ ("externals" :> <<"jquery">>)
    [] name = "addon-a" ->
         ("implicit-scripts" :> << << <<"vendor">>, <<"a2", ".js">> >>,
                                   << <<"vendor">>, <<"a1", ".js">> >> >>)
         @@ ("implicit-styles" :> << << <<"vendor">>, <<"a", ".css">> >> >>)
         @@ ("implicit-test-styles" :> << << <<"vendor">>, <<"a-test", ".css">> >> >>)
         @@ ("implicit-modules" :> << << <<"helpers">>, <<"a">> >> >>)
         @@ ("externals" :> <<"addon-b", "jquery", "lodash">>)
    [] name = "addon-b" ->
         ("implicit-scripts" :> << << <<"vendor">>, <<"b", ".js">> >> >>)
         @@ ("implicit-styles" :> <<>>)
         @@ ("implicit-test-scripts" :> << << <<"vendor">>, <<"b-test", ".js">> >> >>)
         @@ ("implicit-test-modules" :> << << <<"test-support">>, <<"b">> >> >>)
         @@ ("externals" :> <<"ember-source", "lodash">>)

Package(name) ==
  [name |-> name,
   root |-> join(Root, << <<"node_modules">>, <<name>> >>),
   meta |-> PkgMeta(name)]

activeAddonDescendants == [i \in DOMAIN addons |-> Package(addons[i])]

\* sequences of distinct addon names of length at most n: discovery orders
AddonOrders(n) ==
  UNION {{s \in [1..k -> AddonNames] : \A i, j \in 1..k : i # j => s[i] # s[j]} : k \in 0..n}

----------------------------------------------------------------------------
(* The adapter boundary *)

adapterImpliedAssets(type) ==
  CASE type = "implicit-scripts" -> << << <<"vendor">>, <<"shim", ".js">> >> >>
    [] type = "implicit-styles" -> << << <<"vendor">>, <<"app", ".css">> >> >>
    [] type = "implicit-test-scripts" -> << << <<"vendor">>, <<"qunit", ".js">> >> >>
    [] type = "implicit-test-styles" -> <<>>

adapterExternals == <<"lodash", "addon-b", "moment">>

----------------------------------------------------------------------------
(* Implied-asset aggregation *)

scriptPriority_flat(pkg) ==
  CASE pkg.name = "loader.js" -> 0
    [] OTHER -> 1000

scriptPriority(pkg) ==
  CASE pkg.name = "loader.js" -> 0
    [] pkg.name = "ember-source" -> 10
    [] OTHER -> 1000

\* lodash sortBy: ascending by the iteratee (a function on the elements), stable
sortBy(coll, iteratee) ==
  LET n == Len(coll)
      before(j, i) == \/ iteratee[coll[j]] < iteratee[coll[i]]
                      \/ (iteratee[coll[j]] = iteratee[coll[i]] /\ j < i)
      rank(i) == Cardinality({j \in 1..n : before(j, i)}) + 1
  IN [k \in 1..n |-> coll[CHOOSE i \in 1..n : rank(i) = k]]

impliedAddonAssets(type) ==
  LET sorted == sortBy(activeAddonDescendants,
                      [pkg \in Range(activeAddonDescendants) |-> scriptPriority(pkg)])
      contribution(addon) ==
        IF type \in DOMAIN addon.meta
        THEN [i \in DOMAIN addon.meta[type] |-> resolveSync(addon.meta[type][i], addon.root)]
        ELSE <<>>
  IN Flatten([k \in DOMAIN sorted |-> contribution(sorted[k])])

\* resolve.sync throws when the module names no file
resolveThrows(mod, basedir) == resolveSync(mod, basedir) \in missing

impliedAddonAssetsThrows(type) ==
  \E k \in DOMAIN activeAddonDescendants :
    LET addon == activeAddonDescendants[k]
    IN /\ type \in DOMAIN addon.meta
       /\ \E i \in DOMAIN addon.meta[type] : resolveThrows(addon.meta[type][i], addon.root)

impliedAssetsThrows(type) ==
  \/ \E i \in DOMAIN adapterImpliedAssets(type) : resolveThrows(adapterImpliedAssets(type)[i], Root)
  \/ impliedAddonAssetsThrows(type)

impliedAssets(type) ==
  LET appAssets == [i \in DOMAIN adapterImpliedAssets(type) |->
                      resolveSync(adapterImpliedAssets(type)[i], Root)]
      result == impliedAddonAssets(type) \o appAssets
  IN IF type = "implicit-scripts"
     THEN <<join(Root, << <<"_ember_env_", ".js">> >>)>> \o result
     ELSE result

----------------------------------------------------------------------------
(* Externals *)

\* the names the loops of combineExternals visit, in order, with who imports them
externalsVisited ==
  LET ofAddon(addon) ==
        IF "externals" \in DOMAIN addon.meta
        THEN [i \in DOMAIN addon.meta["externals"] |->
                [who |-> addon.name, name |-> addon.meta["externals"][i]]]
        ELSE <<>>
  IN Flatten([k \in DOMAIN addons |-> ofAddon(activeAddonDescendants[k])])
     \o [i \in DOMAIN adapterExternals |-> [who |-> "your app", name |-> adapterExternals[i]]]

\* the branch taken for one visited name: report it, or add it to the Set
visitExternal(acc, v, allAddonNames) ==
  IF v.name \in allAddonNames
  THEN [externals |-> acc.externals, diagnostics |-> Append(acc.diagnostics, v)]
  ELSE [externals |-> IF v.name \in Range(acc.externals) THEN acc.externals
                      ELSE Append(acc.externals, v.name),
        diagnostics |-> acc.diagnostics]

RECURSIVE foldExternals(_, _, _)
foldExternals(acc, visited, allAddonNames) ==
  IF visited = <<>> THEN acc
  ELSE foldExternals(visitExternal(acc, Head(visited), allAddonNames), Tail(visited), allAddonNames)

combineExternals ==
  foldExternals([externals |-> <<>>, diagnostics |-> <<>>], externalsVisited, Range(addons))

----------------------------------------------------------------------------
(* Assets *)

MandatoryAnchors == {"javascript", "styles", "implicitScripts", "implicitStyles"}
OptionalAnchors == {"testJavascript", "implicitTestScripts", "implicitTestStyles"}

NoSource == <<>>

OnDiskAsset(path) ==
  [kind |-> "on-disk", relativePath |-> path, includeTests |-> FALSE, anchors |-> {},
   source |-> NoSource]

InMemoryAsset(path, source) ==
  [kind |-> "in-memory", relativePath |-> path, includeTests |-> FALSE, anchors |-> {},
   source |-> source]

EmberAsset(path, includeTests, anchors) ==
  [kind |-> "ember", relativePath |-> path, includeTests |-> includeTests,
   anchors |-> anchors, source |-> NoSource]

\* one line of generated text
Line(what, at, a, b) == [line |-> what, at |-> at, a |-> a, b |-> b]

IndexHtml == << <<"index", ".html">> >>
TestsIndexHtml == << <<"tests">>, <<"index", ".html">> >>

\* what the adapter may declare in one pass
DeclarableAssets ==
  { OnDiskAsset(<< <<"robots", ".txt">> >>),
    InMemoryAsset(<< <<"assets">>, <<"app", ".js">> >>, <<Line("raw", "", <<>>, <<>>)>>),
    EmberAsset(IndexHtml, FALSE, MandatoryAnchors),
    EmberAsset(TestsIndexHtml, TRUE, MandatoryAnchors \cup OptionalAnchors) }
  \cup { EmberAsset(IndexHtml, FALSE, MandatoryAnchors \ {a}) : a \in MandatoryAnchors }

AssetLists == UNION {[1..k -> declarable] : k \in 0..MaxAssets}

\* appInsertion: a document must come with its four mandatory anchors
appInsertionComplete(anchors) ==
  /\ "javascript" \in anchors
  /\ "styles" \in anchors
  /\ "implicitScripts" \in anchors
  /\ "implicitStyles" \in anchors

appInsertionError ==
  [from |-> "appInsertion", message |-> <<"bug:", "expected", "a", "complete", "AppInsertion">>]

NoEntry == [which |-> "none", files |-> <<>>, lines |-> <<>>]

NoError == [from |-> "", message |-> <<>>]
ThrownError == [from |-> "step", message |-> <<>>]
ResolveError == [from |-> "resolve.sync", message |-> <<"Cannot", "find", "module">>]

----------------------------------------------------------------------------
(* Entrypoint synthesis *)

modulePrefix == "my-app"
autoRun == adapterAutoRun
mainModule == << <<"app">> >>
mainModuleConfig == << <<"APP">> >>

Last(s) == s[Len(s)]

startsWithTests(p) == Len(p) >= 2 /\ p[1] = <<"tests">>

endsWith(p, ext) == p # <<>> /\ Last(p) # <<>> /\ Last(Last(p)) = ext

endsWithTestJs(p) ==
  /\ endsWith(p, ".js")
  /\ Len(Last(p)) >= 2
  /\ Last(p)[Len(Last(p)) - 1] = "-test"

\* relativePath.replace(/\.ext$/, "")
dropExt(p, ext) ==
  IF endsWith(p, ext)
  THEN [p EXCEPT ![Len(p)] = SubSeq(Last(p), 1, Len(Last(p)) - 1)]
  ELSE p

gatherImplicitModules(section) ==
  LET ofAddon(addon) ==
        IF section \in DOMAIN addon.meta
        THEN [i \in DOMAIN addon.meta[section] |->
                [runtime |-> join(<< <<addon.name>> >>, addon.meta[section][i]),
                 buildtime |-> relative(join(Root, << <<"assets">> >>),
                                        join(addon.root, addon.meta[section][i]))]]
        ELSE <<>>
  IN Flatten([k \in DOMAIN addons |-> ofAddon(activeAddonDescendants[k])])

entryTemplate_autoRunFirst(p) ==
  (IF p.needsEmbroiderHook THEN <<Line("hook", "", <<>>, <<>>)>> ELSE <<>>)
  \o [i \in DOMAIN p.eagerModules |-> Line("import", "", p.eagerModules[i], <<>>)]
  \o (IF p.autoRun THEN <<Line("autorun", "", p.mainModule, p.appConfig)>> ELSE <<>>)
  \o [i \in DOMAIN p.lazyModules |->
        Line("define", "", p.lazyModules[i].runtime, p.lazyModules[i].buildtime)]
  \o (IF p.testSuffix THEN <<Line("testSuffix", "", <<>>, <<>>)>> ELSE <<>>)

entryTemplate(p) ==
  (IF p.needsEmbroiderHook THEN <<Line("hook", "", <<>>, <<>>)>> ELSE <<>>)
  \o [i \in DOMAIN p.eagerModules |-> Line("import", "", p.eagerModules[i], <<>>)]
  \o [i \in DOMAIN p.lazyModules |->
        Line("define", "", p.lazyModules[i].runtime, p.lazyModules[i].buildtime)]
  \o (IF p.autoRun THEN <<Line("autorun", "", p.mainModule, p.appConfig)>> ELSE <<>>)
  \o (IF p.testSuffix THEN <<Line("testSuffix", "", <<>>, <<>>)>> ELSE <<>>)

isAppModule(relativePath) ==
  /\ ~startsWithTests(relativePath)
  /\ (endsWith(relativePath, ".js") \/ endsWith(relativePath, ".hbs"))

javascriptEntrypoint(name, files) ==
  LET own == SelectSeq(files, isAppModule)
      record(relativePath) ==
        LET noJS == dropExt(relativePath, ".js")
            noHBS == dropExt(noJS, ".hbs")
        IN [runtime |-> join(<< <<modulePrefix>> >>, noHBS),
            buildtime |-> join(<< <<"..">> >>, noJS)]
      lazyModules == [i \in DOMAIN own |-> record(own[i])]
                     \o gatherImplicitModules("implicit-modules")
      relativePath == << <<"assets">>, <<name, ".js">> >>
  IN InMemoryAsset(relativePath,
       entryTemplate([needsEmbroiderHook |-> TRUE,
                      lazyModules |-> lazyModules,
                      eagerModules |-> <<>>,
                      autoRun |-> autoRun,
                      mainModule |-> relative(dirname(relativePath), mainModule),
                      appConfig |-> mainModuleConfig,
                      testSuffix |-> FALSE]))

isTestModule_anyTestsFile(relativePath) == startsWithTests(relativePath)

isTestModule(relativePath) == startsWithTests(relativePath) /\ endsWithTestJs(relativePath)

testJSEntrypoint(files) ==
  LET tests == SelectSeq(files, isTestModule)
      testModules == [i \in DOMAIN tests |-> join(<< <<"..">> >>, tests[i])]
  IN InMemoryAsset(<< <<"assets">>, <<"test", ".js">> >>,
       entryTemplate([needsEmbroiderHook |-> FALSE,
                      lazyModules |-> gatherImplicitModules("implicit-test-modules"),
                      eagerModules |-> testModules,
                      autoRun |-> FALSE,
                      mainModule |-> <<>>,
                      appConfig |-> <<>>,
                      testSuffix |-> TRUE]))

----------------------------------------------------------------------------
(* Inserting the app into a document *)

\* getOrCreate(map, key, construct)
getOrCreate(map, key, constructed) ==
  IF key \in DOMAIN map
  THEN [value |-> map[key], map |-> map, created |-> FALSE]
  ELSE [value |-> constructed, map |-> (key :> constructed) @@ map, created |-> TRUE]

\* where PreparedEmberHTML puts an insertion: an optional test anchor that the
\* document lacks falls back to the place of the non-test one
anchorOf(asset, anchor) ==
  IF anchor \in asset.anchors THEN anchor
  ELSE CASE anchor = "testJavascript" -> "javascript"
         [] anchor = "implicitTestScripts" -> "implicitScripts"
         [] anchor = "implicitTestStyles" -> "implicitStyles"
         [] OTHER -> anchor

insertScriptTag(asset, anchor, src, type) == Line("script", anchorOf(asset, anchor), src, type)
insertStyleLink(asset, anchor, href) == Line("link", anchorOf(asset, anchor), href, <<>>)

ModuleType == << <<"module">> >>

appEntry_regenerate(files, cache) ==
  [value |-> javascriptEntrypoint(appName, files),
   map |-> (<< <<"assets">>, <<appName, ".js">> >> :> javascriptEntrypoint(appName, files)) @@ cache,
   created |-> TRUE]

appEntry(files, cache) ==
  getOrCreate(cache, << <<"assets">>, <<appName, ".js">> >>, javascriptEntrypoint(appName, files))

testEntry(files, cache) ==
  getOrCreate(cache, << <<"assets">>, <<"test", ".js">> >>, testJSEntrypoint(files))

\* if (asset.includeTests)
includesTests_always(asset) == TRUE

includesTests(asset) == asset.includeTests

\* newAssets.push({ kind: 'in-memory', relativePath, source: html.dom.serialize() })
serialized_asDocument(asset, inserted) == asset

serialized(asset, inserted) == InMemoryAsset(asset.relativePath, inserted)

insertEmberApp(asset, files, cache) ==
  LET appJS == appEntry(files, cache)
      scripts == impliedAssets("implicit-scripts")
      styles == impliedAssets("implicit-styles")
      base == <<insertScriptTag(asset, "javascript", appJS.value.relativePath, ModuleType),
                insertStyleLink(asset, "styles", << <<"assets">>, <<appName, ".css">> >>)>>
              \o [i \in DOMAIN scripts |->
                    insertScriptTag(asset, "implicitScripts", relative(Root, scripts[i]), <<>>)]
              \o [i \in DOMAIN styles |->
                    insertStyleLink(asset, "implicitStyles", relative(Root, styles[i]))]
      testJS == testEntry(files, appJS.map)
      testScripts == impliedAssets("implicit-test-scripts")
      testStyles == impliedAssets("implicit-test-styles")
      tests == <<insertScriptTag(asset, "testJavascript", testJS.value.relativePath, ModuleType)>>
               \o [i \in DOMAIN testScripts |->
                     insertScriptTag(asset, "implicitTestScripts",
                                     relative(Root, testScripts[i]), <<>>)]
               \o [i \in DOMAIN testStyles |->
                     insertStyleLink(asset, "implicitTestStyles", relative(Root, testStyles[i]))]
      inserted == IF includesTests(asset) THEN base \o tests ELSE base
      baseThrows == impliedAssetsThrows("implicit-scripts") \/ impliedAssetsThrows("implicit-styles")
      testsThrow == /\ includesTests(asset)
                    /\ \/ impliedAssetsThrows("implicit-test-scripts")
                       \/ impliedAssetsThrows("implicit-test-styles")
      reachedTests == includesTests(asset) /\ ~baseThrows
      threw == baseThrows \/ testsThrow
  IN [newAssets |->
        IF threw THEN <<>>
        ELSE (IF appJS.created THEN <<appJS.value>> ELSE <<>>)
             \o (IF includesTests(asset) /\ testJS.created THEN <<testJS.value>> ELSE <<>>)
             \o <<serialized(asset, inserted)>>,
      cache |-> IF reachedTests THEN testJS.map ELSE appJS.map,
      inserted |-> IF threw THEN <<>> ELSE inserted,
      appCalls |-> IF appJS.created THEN 1 ELSE 0,
      testCalls |-> IF reachedTests /\ testJS.created THEN 1 ELSE 0,
      threw |-> threw]

\* emitAsset: what it writes, and the assets it hands back to the queue
emitAsset(asset, files, cache) ==
  CASE asset.kind = "in-memory" ->
         [newAssets |-> <<>>, cache |-> cache, inserted |-> <<>>, appCalls |-> 0, testCalls |-> 0,
          threw |-> FALSE,
          events |-> <<[op |-> "writeFile", path |-> asset.relativePath]>>]
    [] asset.kind = "on-disk" ->
         [newAssets |-> <<>>, cache |-> cache, inserted |-> <<>>, appCalls |-> 0, testCalls |-> 0,
          threw |-> FALSE,
          events |-> <<[op |-> "copy", path |-> asset.relativePath]>>]
    [] asset.kind = "ember" ->
         insertEmberApp(asset, files, cache) @@ [events |-> <<>>]
    \* default: assertNever(asset), a function with an empty body
    [] OTHER ->
         [newAssets |-> <<>>, cache |-> cache, inserted |-> <<>>, appCalls |-> 0, testCalls |-> 0,
          threw |-> FALSE,
          events |-> <<>>]


----------------------------------------------------------------------------
(* AppBuilder.build, one step at a time *)

\* the relative paths that can exist in a source tree, in the order a scan meets them
ScanOrder ==
  << << <<"app", ".js">> >>,
     << <<"components">>, <<"foo", ".js">> >>,
     << <<"components">>, <<"from-a", ".js">> >>,
     << <<"components">>, <<"new", ".js">> >>,
     << <<"helpers">>, <<"b", ".js">> >>,
     << <<"styles">>, <<"app", ".css">> >>,
     << <<"templates">>, <<"foo", ".hbs">> >>,
     << <<"tests">>, <<"test-helper", ".js">> >>,
     << <<"tests">>, <<"unit">>, <<"foo", "-test", ".js">> >> >>

scan(paths) == SelectSeq(ScanOrder, LAMBDA p : p \in paths)

\* the values inputPaths can give for the app's own tree
TreePaths == {"app-js", "app-js-2"}

appJSSrcDir(treePaths) == treePaths

\* every directory a tracker can read: the app's tree and each addon's app-js tree
Sources == TreePaths \cup AddonNames

AppTrees ==
  { { << <<"components">>, <<"foo", ".js">> >>,
      << <<"templates">>, <<"foo", ".hbs">> >>,
      << <<"tests">>, <<"unit">>, <<"foo", "-test", ".js">> >>,
      << <<"tests">>, <<"test-helper", ".js">> >>,
      << <<"styles">>, <<"app", ".css">> >> },
    { << <<"app", ".js">> >> } }

OtherAppTree ==
  { << <<"components">>, <<"foo", ".js">> >>,
    << <<"components">>, <<"new", ".js">> >> }

AddonATrees ==
  { {},
    { << <<"components">>, <<"foo", ".js">> >>,
      << <<"components">>, <<"from-a", ".js">> >> } }

AddonBTree ==
  { << <<"components">>, <<"from-a", ".js">> >>,
    << <<"helpers">>, <<"b", ".js">> >> }

\* the states of the source trees between two passes
Snapshots ==
  { [s \in Sources |->
       CASE s = "app-js" -> app
         [] s = "app-js-2" -> OtherAppTree
         [] s = "addon-a" -> a
         [] s = "addon-b" -> AddonBTree
         [] OTHER -> {}] : app \in AppTrees, a \in AddonATrees }

\* the source trees of the passes that run over an unchanging disk
BuildSnapshots == {fs \in Snapshots : fs["addon-a"] # {}}

NoScan == [s \in Sources |-> {}]
NoOwner == <<>>

\* the directories one tracker reads: the app tree it was constructed with and
\* the active addons it was constructed with
trackedSources(dir) == {dir} \cup Range(addons)

\* merge by relative path: the app's file if it has one, else the file of the
\* addon visited last among those that have one
mergedOwner_addonWins(p, dir, fs) ==
  LET idx == {i \in DOMAIN addons : p \in fs[addons[i]]}
  IN IF idx # {} THEN addons[CHOOSE i \in idx : \A j \in idx : j <= i]
     ELSE IF p \in fs[dir] THEN "app" ELSE ""

mergedOwner(p, dir, fs) ==
  LET idx == {i \in DOMAIN addons : p \in fs[addons[i]]}
  IN IF p \in fs[dir] THEN "app"
     ELSE IF idx # {} THEN addons[CHOOSE i \in idx : \A j \in idx : j <= i]
     ELSE ""

\* the paths the diff reports: added to or removed from a tracked directory
\* since the previous scan (everything, on the first scan)
differChanged(dir, seen, fs) ==
  {p \in Range(ScanOrder) : \E s \in trackedSources(dir) : (p \in fs[s]) # (p \in seen[s])}

\* AppDiffer.update(): the merge applied to the changed paths only; files is
\* the Set of the namespace, which keeps the order in which paths were added
differUpdate(dir, seen, owner, files, fs) ==
  LET changed == differChanged(dir, seen, fs)
      gone == {p \in changed : mergedOwner(p, dir, fs) = ""}
      kept == (DOMAIN owner \cup changed) \ gone
      added == kept \ DOMAIN owner
  IN [seen |-> [s \in Sources |-> IF s \in trackedSources(dir) THEN fs[s] ELSE seen[s]],
      owner |-> [p \in kept |-> IF p \in changed THEN mergedOwner(p, dir, fs) ELSE owner[p]],
      files |-> SelectSeq(files, LAMBDA p : p \in kept) \o scan(added)]

EmptyCache == <<>>

NoMeta ==
  [version |-> 0, externals |-> <<>>, assets |-> <<>>, entrypoints |-> <<>>,
   templateCompiler |-> <<>>, babelConfig |-> <<>>]

Event(op, path) == [op |-> op, path |-> path]

PackageJson == << <<"package", ".json">> >>
TemplateCompilerJs == << <<"_template_compiler_", ".js">> >>
BabelConfigJs == << <<"_babel_config_", ".js">> >>
EmberEnvJs == << <<"_ember_env_", ".js">> >>

Running ==
  {"updateAppJS", "assets", "queue", "templateCompiler", "babelConfig", "emberEnv",
   "externals", "meta"}

\* the statement that follows the asset loop and each later statement of build
afterStep_metaFirst(step) ==
  CASE step = "queue" -> "meta"
    [] step = "meta" -> "templateCompiler"
    [] step = "templateCompiler" -> "babelConfig"
    [] step = "babelConfig" -> "emberEnv"
    [] step = "emberEnv" -> "externals"
    [] step = "externals" -> "done"

afterStep(step) ==
  CASE step = "queue" -> "templateCompiler"
    [] step = "templateCompiler" -> "babelConfig"
    [] step = "babelConfig" -> "emberEnv"
    [] step = "emberEnv" -> "externals"
    [] step = "externals" -> "meta"
    [] step = "meta" -> "done"

\* queue = queue.concat(newAssets), after the shift
queueAfter_singlePass(rest, newAssets) == rest

queueAfter_front(rest, newAssets) == newAssets \o rest

queueAfter(rest, newAssets) == rest \o newAssets

CallBuild ==
  /\ pc \in {"idle", "done", "aborted"}
  /\ pc' = "updateAppJS"
  /\ declared' = <<>>
  /\ assets' = <<>>
  /\ queue' = <<>>
  /\ processed' = <<>>
  /\ generated' = <<>>
  /\ docs' = <<>>
  /\ entryCalls' = [app |-> 0, test |-> 0]
  /\ trace' = <<>>
  /\ error' = NoError
  /\ meta' = NoMeta
  /\ externals' = <<>>
  /\ diagnostics' = <<>>
  /\ inputPaths' \in TreePaths
  /\ UNCHANGED <<addons, appName, avars, adapterAutoRun, entryOut, srcFiles, differSeen, differOwner,
                 differsMade, rvars, appDiffer, appFiles, jsEntrypoints, impliedOut, svars>>

\* if (!this.appDiffer)
needsAppDiffer_always(differ) == TRUE

needsAppDiffer(differ) == differ = "none"

\* updateAppJS(this.adapter.appJSSrcDir(inputPaths))
UpdateAppJS ==
  /\ pc = "updateAppJS"
  /\ LET made == needsAppDiffer(appDiffer)
         dir == IF made THEN appJSSrcDir(inputPaths) ELSE appDiffer
         u == differUpdate(dir,
                           IF made THEN NoScan ELSE differSeen,
                           IF made THEN NoOwner ELSE differOwner,
                           IF made THEN <<>> ELSE appFiles,
                           srcFiles)
     IN /\ appDiffer' = dir
        /\ differsMade' = IF made /\ differsMade < MaxDiffers THEN differsMade + 1 ELSE differsMade
        /\ differSeen' = u.seen
        /\ differOwner' = u.owner
        /\ appFiles' = u.files
  /\ trace' = Append(trace, Event("updateAppJS", <<>>))
  /\ pc' = "assets"
  /\ UNCHANGED <<addons, appName, avars, adapterAutoRun, entryOut, srcFiles, inputPaths, rvars, declared,
                 assets, queue, jsEntrypoints, processed, generated,
                 docs, entryCalls, error, meta, evars, impliedOut, svars>>

\* the source trees change on disk between two passes
EditFiles ==
  /\ pc \in {"done", "aborted"}
  /\ srcFiles' \in Snapshots \ {srcFiles}
  /\ UNCHANGED <<addons, appName, avars, adapterAutoRun, entryOut, inputPaths, differSeen, differOwner,
                 differsMade, rvars, bvars, evars, impliedOut, svars>>

\* let jsEntrypoints = new Map(), whatever an earlier pass left
newEntrypoints_kept(previous) == previous

newEntrypoints(previous) == EmptyCache

\* adapter.assets(inputPaths); a document is prepared when it is declared;
\* then the entrypoint cache of the pass is made
DeclareAssets ==
  /\ pc = "assets"
  /\ \E list \in AssetLists :
       /\ declared' = list
       /\ LET incomplete == {i \in DOMAIN list : list[i].kind = "ember"
                                              /\ ~appInsertionComplete(list[i].anchors)}
          IN IF incomplete # {}
             THEN /\ pc' = "aborted"
                  /\ error' = appInsertionError
                  /\ UNCHANGED <<assets, queue, trace, jsEntrypoints>>
             ELSE /\ assets' = list
                  /\ queue' = list
                  /\ jsEntrypoints' = newEntrypoints(jsEntrypoints)
                  /\ trace' = Append(trace, Event("assets", <<>>))
                  /\ pc' = IF list = <<>> THEN afterStep("queue") ELSE "queue"
                  /\ UNCHANGED error
  /\ UNCHANGED <<addons, appName, avars, adapterAutoRun, entryOut, fvars, rvars, appDiffer, appFiles, processed, generated, docs,
                 entryCalls, meta, evars, impliedOut, svars>>

\* one turn of the while loop; an exception of resolve.sync leaves the loop
\* and the pass
EmitAsset ==
  /\ pc = "queue"
  /\ queue # <<>>
  /\ LET asset == Head(queue)
         r == emitAsset(asset, appFiles, jsEntrypoints)
     IN /\ queue' = queueAfter(Tail(queue), r.newAssets)
        /\ jsEntrypoints' = r.cache
        /\ processed' = Append(processed, asset)
        /\ generated' = generated \o r.newAssets
        /\ error' = IF r.threw THEN ResolveError ELSE error
        /\ docs' = IF asset.kind = "ember" /\ ~r.threw
                   THEN Append(docs, [relativePath |-> asset.relativePath,
                                      includeTests |-> asset.includeTests,
                                      inserted |-> r.inserted])
                   ELSE docs
        /\ entryCalls' = [app |-> entryCalls.app + r.appCalls,
                          test |-> entryCalls.test + r.testCalls]
        /\ trace' = Append(trace, Event("emitAsset", asset.relativePath)) \o r.events
        /\ pc' = IF r.threw THEN "aborted"
                 ELSE IF queue' = <<>> THEN afterStep("queue") ELSE "queue"
  /\ UNCHANGED <<addons, appName, avars, adapterAutoRun, entryOut, fvars, rvars, appDiffer, appFiles, declared, assets, meta, evars,
                 impliedOut, svars>>

AddTemplateCompiler ==
  /\ pc = "templateCompiler"
  /\ trace' = Append(trace, Event("writeFile", TemplateCompilerJs))
  /\ pc' = afterStep("templateCompiler")
  /\ UNCHANGED <<addons, appName, avars, adapterAutoRun, entryOut, fvars, rvars, appDiffer, appFiles, declared, assets, queue, jsEntrypoints, processed,
                 generated, docs, entryCalls, error, meta, evars, impliedOut, svars>>

\* adapter.babelConfig(this.root): the plugins by name, and the names of those
\* that come with their source
SyntheticPlugin == << <<"synthetic-plugin", ".js">> >>

adapterBabelConfig ==
  [plugins |-> << << <<"node_modules">>, <<"some-plugin">> >>, SyntheticPlugin >>,
   syntheticPlugins |-> <<SyntheticPlugin>>,
   minusOne |-> <<>>,
   computed |-> TRUE]

NotComputed == [plugins |-> <<>>, syntheticPlugins |-> <<>>, minusOne |-> <<>>, computed |-> FALSE]

\* require.resolve('./babel-plugin'), with its options
OwnPlugin == << <<"@embroider">>, <<"core">>, <<"babel-plugin", ".js">> >>

\* the getter without @Memoize(), over an adapter that answers with one object
babelConfig_everyRead(memo) ==
  IF memo.computed THEN [memo EXCEPT !.plugins = Append(@, OwnPlugin)]
  ELSE [adapterBabelConfig EXCEPT !.plugins = Append(@, OwnPlugin)]

\* @Memoize() get babelConfig(): computed on the first read, the same object after
babelConfig(memo) ==
  IF memo.computed THEN memo
  ELSE [adapterBabelConfig EXCEPT !.plugins = Append(@, OwnPlugin)]

\* Array.prototype.indexOf, 0 standing for -1
indexOf(seq, x) ==
  IF \E i \in DOMAIN seq : seq[i] = x
  THEN CHOOSE i \in DOMAIN seq : seq[i] = x /\ \A j \in 1..(i - 1) : seq[j] # x
  ELSE 0

\* the loop of addBabelConfig over the synthetic plugins: the plugin's entry
\* becomes its full name; at index -1 the assignment makes a property of the
\* array that is no element of it
RECURSIVE nameSynthetic(_, _)
nameSynthetic(babel, names) ==
  IF names = <<>> THEN babel
  ELSE LET fullName == join(Root, Head(names))
           index == indexOf(babel.plugins, Head(names))
       IN nameSynthetic(IF index = 0 THEN [babel EXCEPT !.minusOne = fullName]
                        ELSE [babel EXCEPT !.plugins[index] = fullName],
                        Tail(names))

\* no _babel_config_.js on disk yet
NotWritten == <<>>

\* JSON.stringify(config): of the plugins array its elements, a property of
\* the array that is no element is left out
stringify(babel) == babel.plugins

AddBabelConfig ==
  /\ pc = "babelConfig"
  /\ babelMemo' = nameSynthetic(babelConfig(babelMemo), babelConfig(babelMemo).syntheticPlugins)
  /\ babelConfigJs' = stringify(babelMemo')
  /\ trace' = Append(trace, Event("writeFile", SyntheticPlugin))
              \o <<Event("writeFile", BabelConfigJs)>>
  /\ pc' = afterStep("babelConfig")
  /\ UNCHANGED <<addons, appName, declarable, missing, dom, prevStageCache, adapterAutoRun, entryOut, fvars, rvars, appDiffer, appFiles, declared, assets, queue, jsEntrypoints, processed,
                 generated, docs, entryCalls, error, meta, evars, impliedOut, svars>>

AddEmberEnv ==
  /\ pc = "emberEnv"
  /\ trace' = Append(trace, Event("writeFile", EmberEnvJs))
  /\ pc' = afterStep("emberEnv")
  /\ UNCHANGED <<addons, appName, avars, adapterAutoRun, entryOut, fvars, rvars, appDiffer, appFiles, declared, assets, queue, jsEntrypoints, processed,
                 generated, docs, entryCalls, error, meta, evars, impliedOut, svars>>

CombineExternals ==
  /\ pc = "externals"
  /\ externals' = combineExternals.externals
  /\ diagnostics' = combineExternals.diagnostics
  /\ trace' = Append(trace, Event("combineExternals", <<>>))
  /\ pc' = afterStep("externals")
  /\ UNCHANGED <<addons, appName, avars, adapterAutoRun, entryOut, fvars, rvars, appDiffer, appFiles, declared, assets, queue, jsEntrypoints, processed,
                 generated, docs, entryCalls, error, meta, impliedOut, svars>>

\* assets: assets.map(a => a.relativePath)
metaAssets_processed(declaredAssets, processedAssets) ==
  [i \in DOMAIN processedAssets |-> processedAssets[i].relativePath]

metaAssets(declaredAssets, processedAssets) ==
  [i \in DOMAIN declaredAssets |-> declaredAssets[i].relativePath]

WriteMeta ==
  /\ pc = "meta"
  /\ meta' = [version |-> 2,
              externals |-> externals,
              assets |-> metaAssets(assets, processed),
              entrypoints |-> <<>>,
              templateCompiler |-> TemplateCompilerJs,
              babelConfig |-> BabelConfigJs]
  /\ trace' = Append(trace, Event("writeFile", PackageJson))
  /\ pc' = afterStep("meta")
  /\ UNCHANGED <<addons, appName, avars, adapterAutoRun, entryOut, fvars, rvars, appDiffer, appFiles, declared, assets, queue, jsEntrypoints, processed,
                 generated, docs, entryCalls, error, evars, impliedOut, svars>>

\* any statement of the pass may throw (the file system, the adapter, resolve);
\* nothing catches it, so the pass ends there
Throw ==
  /\ pc \in Running
  /\ pc' = "aborted"
  /\ error' = ThrownError
  /\ UNCHANGED <<addons, appName, avars, adapterAutoRun, entryOut, fvars, rvars, appDiffer, appFiles, declared, assets, queue, jsEntrypoints, processed,
                 generated, docs, entryCalls, trace, meta, evars, impliedOut, svars>>

----------------------------------------------------------------------------
(* App.build of packages/compat/src/app.ts: the builder before the work queue *)

DomAsset(path, includeTests, anchors) ==
  [kind |-> "dom", relativePath |-> path, includeTests |-> includeTests,
   anchors |-> anchors, source |-> NoSource]

\* what the adapter of App may declare: anchors = {} is a document without
\* insertEmberApp
AppDeclarableAssets ==
  { OnDiskAsset(<< <<"robots", ".txt">> >>),
    InMemoryAsset(<< <<"assets">>, <<"vendor", ".js">> >>, <<Line("text", "", <<>>, <<>>)>>),
    DomAsset(IndexHtml, FALSE, MandatoryAnchors),
    DomAsset(TestsIndexHtml, TRUE, MandatoryAnchors \cup OptionalAnchors),
    DomAsset(<< <<"about", ".html">> >>, FALSE, {}) }

AppAssetLists == UNION {[1..k -> AppDeclarableAssets] : k \in 0..MaxAssets}

ownJSPath == "app-js"

AppJavascriptEntrypoint(name, files) ==
  LET own == SelectSeq(files, isAppModule)
      lazyModules == [i \in DOMAIN own |->
                        [runtime |-> join(<< <<modulePrefix>> >>,
                                          dropExt(dropExt(own[i], ".js"), ".hbs")),
                         buildtime |-> join(<< <<"..">> >>, dropExt(own[i], ".js"))]]
                     \o gatherImplicitModules("implicit-modules")
  IN InMemoryAsset(<< <<"assets">>, name \o <<".js">> >>,
       <<Line("hook", "", <<>>, <<>>)>>
       \o [i \in DOMAIN lazyModules |->
             Line("define", "", lazyModules[i].runtime, lazyModules[i].buildtime)]
       \o (IF autoRun
           THEN <<Line("autorun", "",
                       relative(join(Root, << <<"assets">> >>), join(Root, mainModule)),
                       mainModuleConfig)>>
           ELSE <<>>))

AppTestEntrypoint(files) ==
  LET tests == SelectSeq(files, isTestModule)
      lazyModules == gatherImplicitModules("implicit-test-modules")
  IN InMemoryAsset(<< <<"assets">>, <<"test", ".js">> >>,
       [i \in DOMAIN tests |-> Line("import", "", join(<< <<"..">> >>, tests[i]), <<>>)]
       \o (IF lazyModules # <<>> THEN <<Line("let d", "", <<>>, <<>>)>> ELSE <<>>)
       \o [i \in DOMAIN lazyModules |->
             Line("define", "", lazyModules[i].runtime, lazyModules[i].buildtime)]
       \o <<Line("testSuffix", "", <<>>, <<>>)>>)

\* addScriptTag(docAsset, scriptAsset, target)
AppAddScriptTag(docAsset, scriptAsset, target) ==
  Line("script", target, relative(dirname(docAsset.relativePath), scriptAsset.relativePath),
       ModuleType)

\* emitDOMAsset(config, appFiles, asset): the tags it adds and the assets it returns
AppEmitDOMAsset(files, asset) ==
  IF asset.anchors = {}
  THEN [additionalAssets |-> <<>>, inserted |-> <<>>]
  ELSE LET js == AppJavascriptEntrypoint(<<"app", ".js">>, files)
           testJs == AppTestEntrypoint(files)
       IN IF asset.includeTests
          THEN [additionalAssets |-> <<js, testJs>>,
                inserted |-> <<AppAddScriptTag(asset, js, "javascript"),
                               AppAddScriptTag(asset, testJs, anchorOf(asset, "testJavascript"))>>]
          ELSE [additionalAssets |-> <<js>>,
                inserted |-> <<AppAddScriptTag(asset, js, "javascript")>>]

AppRunning ==
  {"App.updateAppJS", "App.assets", "App.forOf", "App.templateCompiler", "App.babelConfig",
   "App.emberEnv", "App.meta"}

AppCallBuild ==
  /\ pc \in {"idle", "done", "aborted"}
  /\ pc' = "App.updateAppJS"
  /\ declared' = <<>>
  /\ assets' = <<>>
  /\ queue' = <<>>
  /\ processed' = <<>>
  /\ generated' = <<>>
  /\ docs' = <<>>
  /\ trace' = <<>>
  /\ error' = NoError
  /\ meta' = NoMeta
  /\ UNCHANGED <<addons, appName, avars, adapterAutoRun, entryOut, fvars, rvars, appDiffer, appFiles,
                 jsEntrypoints, entryCalls, evars, impliedOut, svars>>

\* updateAppJS(this.adapter.ownJSPath())
AppUpdateAppJS ==
  /\ pc = "App.updateAppJS"
  /\ LET made == needsAppDiffer(appDiffer)
         dir == IF made THEN ownJSPath ELSE appDiffer
         u == differUpdate(dir,
                           IF made THEN NoScan ELSE differSeen,
                           IF made THEN NoOwner ELSE differOwner,
                           IF made THEN <<>> ELSE appFiles,
                           srcFiles)
     IN /\ appDiffer' = dir
        /\ differsMade' = IF made /\ differsMade < MaxDiffers THEN differsMade + 1 ELSE differsMade
        /\ differSeen' = u.seen
        /\ differOwner' = u.owner
        /\ appFiles' = u.files
  /\ trace' = Append(trace, Event("updateAppJS", <<>>))
  /\ pc' = "App.assets"
  /\ UNCHANGED <<addons, appName, avars, adapterAutoRun, entryOut, srcFiles, inputPaths, rvars, declared,
                 assets, queue, jsEntrypoints, processed, generated,
                 docs, entryCalls, error, meta, evars, impliedOut, svars>>

\* this.adapter.assets(inputPaths)
AppAssets ==
  /\ pc = "App.assets"
  /\ \E list \in AppAssetLists :
       /\ declared' = list
       /\ assets' = list
       /\ queue' = list
       /\ pc' = IF list = <<>> THEN "App.templateCompiler" ELSE "App.forOf"
  /\ trace' = Append(trace, Event("assets", <<>>))
  /\ UNCHANGED <<addons, appName, avars, adapterAutoRun, entryOut, fvars, rvars, appDiffer, appFiles,
                 jsEntrypoints, processed, generated, docs, entryCalls, error, meta, evars,
                 impliedOut, svars>>

\* one turn of for (let asset of assets): what emitDOMAsset returns is held in
\* a local of the case and nothing is done with it
AppForOf ==
  /\ pc = "App.forOf"
  /\ queue # <<>>
  /\ LET asset == Head(queue)
         r == AppEmitDOMAsset(appFiles, asset)
     IN /\ processed' = Append(processed, asset)
        /\ generated' = IF asset.kind = "dom" THEN generated \o r.additionalAssets ELSE generated
        /\ docs' = IF asset.kind = "dom"
                   THEN Append(docs, [relativePath |-> asset.relativePath,
                                      includeTests |-> asset.includeTests,
                                      inserted |-> r.inserted])
                   ELSE docs
        /\ trace' = CASE asset.kind = "on-disk" -> Append(trace, Event("copy", asset.relativePath))
                      [] asset.kind = "in-memory" ->
                           Append(trace, Event("writeFile", asset.relativePath))
                      [] OTHER -> trace
  /\ queue' = Tail(queue)
  /\ pc' = IF Tail(queue) = <<>> THEN "App.templateCompiler" ELSE "App.forOf"
  /\ UNCHANGED <<addons, appName, avars, adapterAutoRun, entryOut, fvars, rvars, appDiffer, appFiles,
                 declared, assets, jsEntrypoints, entryCalls, error, meta, evars, impliedOut,
                 svars>>

AppAddTemplateCompiler ==
  /\ pc = "App.templateCompiler"
  /\ trace' = Append(trace, Event("writeFile", TemplateCompilerJs))
  /\ pc' = "App.babelConfig"
  /\ UNCHANGED <<addons, appName, avars, adapterAutoRun, entryOut, fvars, rvars, appDiffer, appFiles,
                 declared, assets, queue, jsEntrypoints, processed, generated, docs, entryCalls,
                 error, meta, evars, impliedOut, svars>>

AppAddBabelConfig ==
  /\ pc = "App.babelConfig"
  /\ trace' = Append(trace, Event("writeFile", BabelConfigJs))
  /\ pc' = "App.emberEnv"
  /\ UNCHANGED <<addons, appName, avars, adapterAutoRun, entryOut, fvars, rvars, appDiffer, appFiles,
                 declared, assets, queue, jsEntrypoints, processed, generated, docs, entryCalls,
                 error, meta, evars, impliedOut, svars>>

AppAddEmberEnv ==
  /\ pc = "App.emberEnv"
  /\ trace' = Append(trace, Event("writeFile", EmberEnvJs))
  /\ pc' = "App.meta"
  /\ UNCHANGED <<addons, appName, avars, adapterAutoRun, entryOut, fvars, rvars, appDiffer, appFiles,
                 declared, assets, queue, jsEntrypoints, processed, generated, docs, entryCalls,
                 error, meta, evars, impliedOut, svars>>

AppWriteMeta ==
  /\ pc = "App.meta"
  /\ meta' = [version |-> 2,
              externals |-> adapterExternals,
              assets |-> <<>>,
              entrypoints |-> [i \in DOMAIN assets |-> assets[i].relativePath],
              templateCompiler |-> TemplateCompilerJs,
              babelConfig |-> BabelConfigJs]
  /\ trace' = Append(trace, Event("writeFile", PackageJson))
  /\ pc' = "done"
  /\ UNCHANGED <<addons, appName, avars, adapterAutoRun, entryOut, fvars, rvars, appDiffer, appFiles,
                 declared, assets, queue, jsEntrypoints, processed, generated, docs, entryCalls,
                 error, evars, impliedOut, svars>>

AppThrow ==
  /\ pc \in AppRunning
  /\ pc' = "aborted"
  /\ error' = ThrownError
  /\ UNCHANGED <<addons, appName, avars, adapterAutoRun, entryOut, fvars, rvars, appDiffer, appFiles,
                 declared, assets, queue, jsEntrypoints, processed, generated, docs, entryCalls,
                 trace, meta, evars, impliedOut, svars>>

----------------------------------------------------------------------------
(* The specifier rewriter (babel-plugin.ts)                                 *)
(*                                                                          *)
(* A string is what split('/') makes of it: a non-empty sequence of         *)
(* segments, each a sequence of atoms; "" is << <<>> >>, "/abs/x" is        *)
(* << <<>>, <<"abs">>, <<"x">> >>.  undefined and null are <<>>.            *)

Undefined == <<>>
EmptyString == << <<>> >>
Dot == << <<".">> >>

truthy(str) == str # Undefined /\ str # EmptyString

\* atoms whose first character is a dot, and atoms that start a scoped name
DotAtoms == {".", "..", ".hidden", ".js", ".hbs"}
ScopeAtoms == {"@scope"}

\* str[0], as far as the code tells characters apart
firstChar(str) ==
  IF str = Undefined \/ str = EmptyString THEN ""
  ELSE IF Head(str) = <<>> THEN "/"
  ELSE IF Head(Head(str)) \in DotAtoms THEN "."
  ELSE IF Head(Head(str)) \in ScopeAtoms THEN "@"
  ELSE "a"

\* a + b on strings
concat(a, b) == SubSeq(a, 1, Len(a) - 1) \o << Last(a) \o Head(b) >> \o Tail(b)

\* packageName(specifier) of @embroider/core
packageName(specifier) ==
  IF firstChar(specifier) \in {".", "/"} THEN Undefined
  ELSE IF firstChar(specifier) = "@"
       THEN IF Len(specifier) >= 2 THEN SubSeq(specifier, 1, 2)
            ELSE << Head(specifier), <<"undefined">> >>
  ELSE << Head(specifier) >>

\* specifier.replace(name, replacement), name being the leading part of specifier
replaceName(specifier, name, replacement) ==
  concat(replacement, EmptyString \o SubSeq(specifier, Len(name) + 1, Len(specifier)))

\* process.cwd() of the transform
Cwd == << <<"proj">> >>

RECURSIVE normalizeSegments(_, _)
normalizeSegments(todo, done) ==
  IF todo = <<>> THEN done
  ELSE IF Head(todo) = <<>> \/ Head(todo) = <<".">> THEN normalizeSegments(Tail(todo), done)
  ELSE IF Head(todo) = <<"..">>
       THEN normalizeSegments(Tail(todo), IF done = <<>> THEN <<>> ELSE SubSeq(done, 1, Len(done) - 1))
  ELSE normalizeSegments(Tail(todo), Append(done, Head(todo)))

\* path.resolve(p): the segments below the root
pathResolve(p) ==
  IF firstChar(p) = "/" THEN normalizeSegments(p, <<>>) ELSE normalizeSegments(Cwd \o p, <<>>)

\* path.relative(from, to) of babel-plugin.ts, on strings
pathRelative(from, to) ==
  LET r == relative(pathResolve(from), pathResolve(to))
  IN IF r = <<>> THEN EmptyString ELSE r

\* path.dirname(p) of babel-plugin.ts, on strings
pathDirname(p) ==
  IF Len(p) = 1 THEN Dot
  ELSE IF Len(p) = 2 /\ Head(p) = <<>> THEN << <<>>, <<>> >>
  ELSE SubSeq(p, 1, Len(p) - 1)

adjustSpecifier_alwaysRelative(specifier, fileName, o) ==
  LET name == packageName(specifier)
  IN IF truthy(name)
     THEN LET fullPath == replaceName(specifier, name, IF truthy(o.basedir) THEN o.basedir ELSE Dot)
              relativePath == pathRelative(pathDirname(fileName), fullPath)
          IN IF firstChar(relativePath) # "." THEN concat(<< <<".">>, <<>> >>, relativePath)
             ELSE relativePath
     ELSE specifier

\* the two tests of adjustSpecifier taken in the other order
adjustSpecifier_renameFirst(specifier, fileName, o) ==
  LET name == packageName(specifier)
  IN IF truthy(name) /\ name \in DOMAIN o.rename /\ truthy(o.rename[name])
     THEN replaceName(specifier, name, o.rename[name])
     ELSE IF truthy(name) /\ name = o.ownName
     THEN LET fullPath == replaceName(specifier, name, IF truthy(o.basedir) THEN o.basedir ELSE Dot)
              relativePath == pathRelative(pathDirname(fileName), fullPath)
          IN IF firstChar(relativePath) # "." THEN concat(<< <<".">>, <<>> >>, relativePath)
             ELSE relativePath
     ELSE specifier

adjustSpecifier(specifier, fileName, o) ==
  LET name == packageName(specifier)
  IN IF truthy(name) /\ name = o.ownName
     THEN LET fullPath == replaceName(specifier, name, IF truthy(o.basedir) THEN o.basedir ELSE Dot)
              relativePath == pathRelative(pathDirname(fileName), fullPath)
          IN IF firstChar(relativePath) # "." THEN concat(<< <<".">>, <<>> >>, relativePath)
             ELSE relativePath
     ELSE IF truthy(name) /\ name \in DOMAIN o.rename /\ truthy(o.rename[name])
     THEN replaceName(specifier, name, o.rename[name])
     ELSE specifier

\* /\btemplates\b/.test(specifier): atoms in which `templates` stands as a word
TemplatesAtoms == {"templates", "-templates"}

hasTemplatesWord(specifier) ==
  \E i \in DOMAIN specifier : \E k \in DOMAIN specifier[i] : specifier[i][k] \in TemplatesAtoms

\* /\.hbs$/.test(specifier)
endsWithHbs(specifier) == Last(specifier) # <<>> /\ Last(Last(specifier)) = ".hbs"

makeHBSExplicit_unlessChecked(specifier) ==
  IF hasTemplatesWord(specifier) THEN concat(specifier, << <<".hbs">> >>) ELSE specifier

makeHBSExplicit(specifier) ==
  IF hasTemplatesWord(specifier) /\ ~endsWithHbs(specifier)
  THEN concat(specifier, << <<".hbs">> >>)
  ELSE specifier

\* the specifiers of the statements the transform meets; <<>> is a statement
\* without a source
Specifiers ==
  { Undefined,
    << <<"my-app">> >>,
    << <<"my-app">>, <<"components">>, <<"foo">> >>,
    << <<"my-app">>, <<"templates">>, <<"foo">> >>,
    << <<"my-app">>, <<"templates">>, <<"foo", ".hbs">> >>,
    << <<"my-app">>, <<".hidden">>, <<"foo">> >>,
    << <<"@scope">>, <<"pkg">>, <<"sub">> >>,
    << <<"old-name">>, <<"x">> >>,
    << <<"other">>, <<"utils">> >>,
    << <<"other">>, <<"templates">>, <<"foo">> >>,
    << <<".">>, <<"templates">>, <<"foo", ".hbs">> >>,
    << <<".">>, <<"my", "-templates">> >>,
    << <<"..">>, <<"utils">> >>,
    << <<>>, <<"abs">>, <<"x">> >> }

FileNames ==
  { << <<>>, <<"proj">>, <<"x", ".js">> >>,
    << <<>>, <<"proj">>, <<"components">>, <<"x", ".js">> >>,
    << <<>>, <<"proj">>, <<"lib">>, <<"templates">>, <<"x", ".js">> >> }

OwnNames ==
  { Undefined, << <<"my-app">> >>, << <<"@scope">>, <<"pkg">> >>, << <<"ember-cli-test-loader">> >> }

Basedirs == { Undefined, << <<"lib">> >>, << <<>>, <<"proj">>, <<"lib">>, <<"templates">> >> }

Renames ==
  { <<>>,
    (<< <<"old-name">> >> :> << <<"new-name">> >>),
    (<< <<"old-name">> >> :> << <<"my-app">> >>),
    (<< <<"old-name">> >> :> << <<"new-name">>, <<"templates">> >>)
      @@ (<< <<"my-app">> >> :> << <<"renamed-app">> >>) }

\* nodes of the program that the identifier visitor meets or makes
Identifier(name) == [type |-> "Identifier", name |-> name, object |-> ""]

MemberExpression(object, property) ==
  [type |-> "MemberExpression", name |-> property.name, object |-> object.name]

\* a referenced identifier: its name, whether its scope has a binding of
\* `require`, the node that stands at its place, and whether the traversal
\* has been there
Reference(name, hasBinding) ==
  [name |-> name, hasBinding |-> hasBinding, node |-> Identifier(name), visited |-> FALSE]

NoReference == [Reference("", FALSE) EXCEPT !.visited = TRUE]

References == { Reference(n, b) : n \in {"require", "define"}, b \in BOOLEAN }

NotRun == [ran |-> FALSE, value |-> Undefined]

\* the identifier that is referenced at a node: of window.require it is window
referenced(node) == IF node.type = "MemberExpression" THEN node.object ELSE node.name

rewritesRequire_bound(should, name, hasBinding) == should /\ name = "require"

\* state.shouldRewriteRequire && path.node.name === 'require' && !path.scope.hasBinding('require')
rewritesRequire(should, name, hasBinding) == should /\ name = "require" /\ ~hasBinding

\* Program.enter
ProgramEnter ==
  /\ rpc = "parsed"
  /\ emberCLIVanillaJobs' = <<>>
  /\ shouldRewriteRequire' = (opts.ownName = << <<"ember-cli-test-loader">> >>)
  /\ rpc' = "entered"
  /\ UNCHANGED reference
  /\ UNCHANGED <<addons, appName, avars, adapterAutoRun, entryOut, fvars, opts, sourceFileName, original, firstRun,
                 adjusted, sourceValue, bvars, evars, impliedOut, svars>>

\* ImportDeclaration|ExportNamedDeclaration|ExportAllDeclaration
VisitStatement ==
  /\ rpc = "entered"
  /\ IF sourceValue = Undefined
     THEN UNCHANGED <<adjusted, emberCLIVanillaJobs>>
     ELSE LET specifier == adjustSpecifier(sourceValue, sourceFileName, opts)
              explicit == makeHBSExplicit(specifier)
          IN /\ adjusted' = specifier
             /\ emberCLIVanillaJobs' = IF explicit # sourceValue
                                       THEN Append(emberCLIVanillaJobs, explicit)
                                       ELSE emberCLIVanillaJobs
  /\ rpc' = "visited"
  /\ UNCHANGED reference
  /\ UNCHANGED <<addons, appName, avars, adapterAutoRun, entryOut, fvars, opts, sourceFileName, original, firstRun,
                 sourceValue, shouldRewriteRequire, bvars, evars, impliedOut, svars>>

\* ReferencedIdentifier
ReferencedIdentifier ==
  /\ rpc \in {"entered", "visited"}
  /\ ~reference.visited
  /\ reference' =
       [reference EXCEPT
          !.visited = TRUE,
          !.node = IF rewritesRequire(shouldRewriteRequire, referenced(reference.node),
                                      reference.hasBinding)
                   THEN MemberExpression(Identifier("window"), reference.node)
                   ELSE reference.node]
  /\ UNCHANGED <<addons, appName, avars, adapterAutoRun, entryOut, fvars, opts, sourceFileName,
                 original, firstRun, adjusted, sourceValue, emberCLIVanillaJobs,
                 shouldRewriteRequire, rpc, bvars, evars, impliedOut, svars>>

\* the transform is given the program it has left
Rerun ==
  /\ rpc = "exited"
  /\ ~firstRun.ran
  /\ firstRun' = [ran |-> TRUE, value |-> sourceValue]
  /\ reference' = [reference EXCEPT !.visited = FALSE]
  /\ rpc' = "parsed"
  /\ UNCHANGED <<addons, appName, avars, adapterAutoRun, entryOut, fvars, opts, sourceFileName,
                 original, adjusted, sourceValue, emberCLIVanillaJobs, shouldRewriteRequire,
                 bvars, evars, impliedOut, svars>>

\* Program.exit: the queued assignments run
ProgramExit ==
  /\ rpc = "visited"
  /\ reference.visited
  /\ UNCHANGED reference
  /\ sourceValue' = IF emberCLIVanillaJobs = <<>> THEN sourceValue ELSE Last(emberCLIVanillaJobs)
  /\ rpc' = "exited"
  /\ UNCHANGED <<addons, appName, avars, adapterAutoRun, entryOut, fvars, opts, sourceFileName, original, firstRun,
                 adjusted, emberCLIVanillaJobs, shouldRewriteRequire, bvars, evars, impliedOut,
                 svars>>

----------------------------------------------------------------------------
(* Specifications *)

InitBuilder ==
  /\ pc = "idle"
  /\ appDiffer = "none"
  /\ appFiles = <<>>
  /\ declared = <<>>
  /\ assets = <<>>
  /\ queue = <<>>
  /\ jsEntrypoints = EmptyCache
  /\ processed = <<>>
  /\ generated = <<>>
  /\ docs = <<>>
  /\ entryCalls = [app |-> 0, test |-> 0]
  /\ trace = <<>>
  /\ error = NoError
  /\ meta = NoMeta
  /\ externals = <<>>
  /\ diagnostics = <<>>
  /\ impliedOut = [type |-> "", result |-> <<>>]
  /\ entryOut = NoEntry
  /\ inputPaths = ""
  /\ differSeen = NoScan
  /\ differOwner = NoOwner
  /\ differsMade = 0

\* no document is being updated
NoDocument ==
  [children |-> <<>>, parsed |-> <<>>, original |-> 0, entrypoint |-> <<>>,
   bundleName |-> "", step |-> "none"]

\* the adapter declares well-formed assets and every file named exists
InitAdapter ==
  /\ declarable = DeclarableAssets
  /\ missing = {}
  /\ dom = NoDocument
  /\ prevStageCache = "none"
  /\ babelMemo = NotComputed
  /\ babelConfigJs = NotWritten

\* no program is being transformed
InitNoProgram ==
  /\ opts = [ownName |-> <<>>, basedir |-> <<>>, rename |-> <<>>]
  /\ sourceFileName = <<>>
  /\ original = <<>>
  /\ adjusted = <<>>
  /\ sourceValue = <<>>
  /\ emberCLIVanillaJobs = <<>>
  /\ shouldRewriteRequire = FALSE
  /\ rpc = "idle"
  /\ reference = NoReference
  /\ firstRun = NotRun

InitStage ==
  /\ active = 0
  /\ outputPath = ""
  /\ packageCache = ""
  /\ deferReady = FALSE
  /\ cb = [c \in 1..MaxCallbacks |-> [pc |-> "idle"]]
  /\ instances = 0
  /\ prevReadyCalls = 0
  /\ waiters = [w \in 1..MaxWaiters |->
                  [state |-> "none", during |-> {}, outputPath |-> "", packageCache |-> ""]]

BuildAddonOrders == { <<>>, <<"addon-a", "ember-source", "loader.js">> }

\* the apps that are built: one with addons and a full source tree, and one
\* without addons, with a single source file, whose name is that of the test
\* entrypoint
BuildApps ==
  { w \in [addons : BuildAddonOrders, appName : {"app", "test"}, srcFiles : BuildSnapshots] :
      /\ w.appName = "app" <=> w.addons # <<>>
      /\ w.appName = "app" <=> Cardinality(w.srcFiles["app-js"]) > 1 }

Init ==
  /\ \E w \in BuildApps :
       /\ addons = w.addons
       /\ appName = w.appName
       /\ srcFiles = w.srcFiles
  /\ adapterAutoRun = TRUE
  /\ InitBuilder
  /\ InitAdapter
  /\ InitStage
  /\ InitNoProgram

Next ==
  \/ CallBuild
  \/ UpdateAppJS
  \/ DeclareAssets
  \/ EmitAsset
  \/ AddTemplateCompiler
  \/ AddBabelConfig
  \/ AddEmberEnv
  \/ CombineExternals
  \/ WriteMeta
  \/ Throw

Spec == Init /\ [][Next]_vars

----------------------------------------------------------------------------
(* The functions on their own: every discovery order of the addons *)

CallImpliedAssets ==
  /\ \E type \in ImplicitAssetTypes :
       impliedOut' = [type |-> type, result |-> impliedAssets(type)]
  /\ UNCHANGED <<addons, appName, avars, adapterAutoRun, entryOut, fvars, rvars, bvars, evars, svars>>

CallCombineExternals ==
  /\ externals' = combineExternals.externals
  /\ diagnostics' = combineExternals.diagnostics
  /\ trace' = <<Event("combineExternals", <<>>)>>
  /\ UNCHANGED <<addons, appName, avars, adapterAutoRun, entryOut, fvars, rvars, pc, appDiffer, appFiles, declared, assets, queue, jsEntrypoints,
                 processed, generated, docs, entryCalls, error, meta, impliedOut, svars>>

\* the relative paths the namespaces of the function-level checks are made of
EntryPaths ==
  { << <<"components">>, <<"foo", ".js">> >>,
    << <<"templates">>, <<"foo", ".hbs">> >>,
    << <<"templates">>, <<"foo", ".js">> >>,
    << <<"templates">>, <<"bar", ".hbs", ".js">> >>,
    << <<"tests", ".js">> >>,
    << <<"styles">>, <<"app", ".css">> >>,
    << <<"tests">>, <<"unit">>, <<"foo", "-test", ".js">> >>,
    << <<"tests">>, <<"unit">>, <<"foo", "-test", ".hbs">> >>,
    << <<"tests">>, <<"test-helper", ".js">> >> }

\* namespaces: Sets of at most MaxFiles paths, in every iteration order
EntryNamespaces ==
  UNION {{f \in [1..k -> EntryPaths] : \A i, j \in 1..k : i # j => f[i] # f[j]} : k \in 0..MaxFiles}

\* javascriptEntrypoint(this.app.name, appFiles)
CallJavascriptEntrypoint ==
  /\ entryOut' = [which |-> "app", files |-> appFiles,
                  lines |-> javascriptEntrypoint(appName, appFiles).source]
  /\ UNCHANGED <<addons, appName, avars, adapterAutoRun, fvars, rvars, bvars, evars, impliedOut, svars>>

\* testJSEntrypoint(appFiles)
CallTestJSEntrypoint ==
  /\ entryOut' = [which |-> "test", files |-> appFiles, lines |-> testJSEntrypoint(appFiles).source]
  /\ UNCHANGED <<addons, appName, avars, adapterAutoRun, fvars, rvars, bvars, evars, impliedOut, svars>>

InitEntrypoints ==
  /\ addons \in AddonOrders(MaxEntryAddons)
  /\ appName = "app"
  /\ adapterAutoRun \in BOOLEAN
  /\ srcFiles = NoScan
  /\ pc = "idle"
  /\ appDiffer = "none"
  /\ appFiles \in EntryNamespaces
  /\ declared = <<>>
  /\ assets = <<>>
  /\ queue = <<>>
  /\ jsEntrypoints = EmptyCache
  /\ processed = <<>>
  /\ generated = <<>>
  /\ docs = <<>>
  /\ entryCalls = [app |-> 0, test |-> 0]
  /\ trace = <<>>
  /\ error = NoError
  /\ meta = NoMeta
  /\ externals = <<>>
  /\ diagnostics = <<>>
  /\ impliedOut = [type |-> "", result |-> <<>>]
  /\ entryOut = NoEntry
  /\ inputPaths = ""
  /\ differSeen = NoScan
  /\ differOwner = NoOwner
  /\ differsMade = 0
  /\ InitAdapter
  /\ InitStage
  /\ InitNoProgram

NextEntrypoints ==
  \/ CallJavascriptEntrypoint
  \/ CallTestJSEntrypoint

\* the two generators on their own: every namespace of at most MaxFiles paths
SpecEntrypoints == InitEntrypoints /\ [][NextEntrypoints]_vars

InitFunctions ==
  /\ addons \in AddonOrders(MaxAddons)
  /\ appName = "app"
  /\ adapterAutoRun \in BOOLEAN
  /\ srcFiles = NoScan
  /\ InitBuilder
  /\ InitAdapter
  /\ InitStage
  /\ InitNoProgram

NextFunctions ==
  \/ CallImpliedAssets
  \/ CallCombineExternals

SpecFunctions == InitFunctions /\ [][NextFunctions]_vars

----------------------------------------------------------------------------
(* The namespace tracker over a changing disk: passes that end once the     *)
(* namespace is known (adapter.assets throws), with edits between them      *)

InitTracker ==
  /\ addons \in AddonOrders(MaxTrackerAddons)
  /\ appName = "app"
  /\ adapterAutoRun = TRUE
  /\ srcFiles \in Snapshots
  /\ InitBuilder
  /\ InitAdapter
  /\ InitStage
  /\ InitNoProgram

NextTracker ==
  \/ CallBuild
  \/ UpdateAppJS
  \/ Throw
  \/ EditFiles

SpecTracker == InitTracker /\ [][NextTracker]_vars

----------------------------------------------------------------------------
(* Passes over a changing disk and a changing adapter: the documents only,  *)
(* with edits of the source trees and of the app's configuration between    *)
(* two passes                                                               *)

\* the answer of adapter.autoRun() changes between two passes
AdapterChanges ==
  /\ pc \in {"done", "aborted"}
  /\ adapterAutoRun' = ~adapterAutoRun
  /\ UNCHANGED <<addons, appName, avars, entryOut, fvars, rvars, bvars, evars, impliedOut, svars>>

\* the adapter of these passes declares the test document only
PassAssets == { EmberAsset(TestsIndexHtml, TRUE, MandatoryAnchors \cup OptionalAnchors) }

InitPasses ==
  /\ addons = <<"addon-a", "addon-b">>
  /\ appName = "app"
  /\ adapterAutoRun = TRUE
  /\ srcFiles \in Snapshots
  /\ declarable = PassAssets
  /\ missing = {}
  /\ dom = NoDocument
  /\ prevStageCache = "none"
  /\ babelMemo = NotComputed
  /\ babelConfigJs = NotWritten
  /\ InitBuilder
  /\ InitStage
  /\ InitNoProgram

NextPasses ==
  \/ CallBuild
  \/ UpdateAppJS
  \/ DeclareAssets
  \/ EmitAsset
  \/ AddTemplateCompiler
  \/ AddBabelConfig
  \/ AddEmberEnv
  \/ CombineExternals
  \/ WriteMeta
  \/ Throw
  \/ EditFiles
  \/ AdapterChanges

SpecPasses == InitPasses /\ [][NextPasses]_vars

----------------------------------------------------------------------------
(* Passes over documents only: with and without tests, with and without the *)
(* optional anchors                                                         *)

DocumentAssets ==
  { EmberAsset(IndexHtml, FALSE, MandatoryAnchors),
    EmberAsset(IndexHtml, FALSE, MandatoryAnchors \cup OptionalAnchors),
    EmberAsset(TestsIndexHtml, TRUE, MandatoryAnchors \cup OptionalAnchors) }

InitDocuments ==
  /\ \E w \in BuildApps :
       /\ addons = w.addons
       /\ appName = w.appName
       /\ srcFiles = w.srcFiles
  /\ adapterAutoRun = TRUE
  /\ declarable = DocumentAssets
  /\ missing = {}
  /\ dom = NoDocument
  /\ prevStageCache = "none"
  /\ babelMemo = NotComputed
  /\ babelConfigJs = NotWritten
  /\ InitBuilder
  /\ InitStage
  /\ InitNoProgram

SpecDocuments == InitDocuments /\ [][Next]_vars

----------------------------------------------------------------------------
(* The build against a faulty environment: an adapter written for the       *)
(* earlier asset kinds ('dom' where this builder expects 'ember'), and      *)
(* addon metadata that names files absent from disk                         *)

FaultyAssets ==
  { OnDiskAsset(<< <<"robots", ".txt">> >>),
    DomAsset(IndexHtml, FALSE, MandatoryAnchors),
    EmberAsset(TestsIndexHtml, TRUE, MandatoryAnchors \cup OptionalAnchors) }

\* files that addon-a and addon-b name in their metadata
NamedByAddons ==
  { join(Package("addon-a").root, << <<"vendor">>, <<"a", ".css">> >>),
    join(Package("addon-b").root, << <<"vendor">>, <<"b-test", ".js">> >>),
    join(Package("addon-a").root, << <<"helpers">>, <<"a">> >>),
    join(Package("addon-b").root, << <<"test-support">>, <<"b">> >>) }

FaultyAddonOrders == { <<>>, <<"addon-a", "addon-b">> }

InitFaults ==
  /\ addons \in FaultyAddonOrders
  /\ appName = "app"
  /\ adapterAutoRun = TRUE
  /\ srcFiles = CHOOSE fs \in BuildSnapshots : TRUE
  /\ declarable = FaultyAssets
  /\ missing \in {m \in SUBSET NamedByAddons : Cardinality(m) <= 1}
  /\ dom = NoDocument
  /\ prevStageCache = "none"
  /\ babelMemo = NotComputed
  /\ babelConfigJs = NotWritten
  /\ InitBuilder
  /\ InitStage
  /\ InitNoProgram

SpecFaults == InitFaults /\ [][Next]_vars

----------------------------------------------------------------------------
(* App.build *)

NextApp ==
  \/ AppCallBuild
  \/ AppUpdateAppJS
  \/ AppAssets
  \/ AppForOf
  \/ AppAddTemplateCompiler
  \/ AppAddBabelConfig
  \/ AppAddEmberEnv
  \/ AppWriteMeta
  \/ AppThrow

SpecApp == Init /\ [][NextApp]_vars

----------------------------------------------------------------------------
(* CompatAppBuilder.updateJS and updateCSS: replacing the vendor and         *)
(* test-support elements of a document by one element per implied asset     *)

Node(kind, value) == [kind |-> kind, value |-> value]

NewlineText == Node("text", << <<"\n">> >>)

\* parent.insertBefore(node, ref), ref being the child at index ref
insertBefore_afterRef(children, node, ref) ==
  SubSeq(children, 1, ref) \o <<node>> \o SubSeq(children, ref + 1, Len(children))

insertBefore(children, node, ref) ==
  SubSeq(children, 1, ref - 1) \o <<node>> \o SubSeq(children, ref, Len(children))

\* element.remove()
remove(children, ref) ==
  SubSeq(children, 1, ref - 1) \o SubSeq(children, ref + 1, Len(children))

metaKeyOf(originalBundle) ==
  CASE originalBundle = "vendor.js" -> "implicit-scripts"
    [] originalBundle = "vendor.css" -> "implicit-styles"
    [] originalBundle = "test-support.js" -> "implicit-test-scripts"
    [] originalBundle = "test-support.css" -> "implicit-test-styles"

\* separateAssets: the addons' entries by priority, then the app's tracked
\* imports of the group, with _ember_env_.js put first for vendor.js
separateAssets(originalBundle) ==
  LET metaKey == metaKeyOf(originalBundle)
      imports == adapterImpliedAssets(metaKey)
      result == impliedAddonAssets(metaKey)
                \o [i \in DOMAIN imports |-> resolveSync(imports[i], Root)]
  IN IF originalBundle = "vendor.js"
     THEN <<join(Root, << <<"_ember_env_", ".js">> >>)>> \o result
     ELSE result

\* the body of the for loop, for each element in turn: a newline text node and
\* the element go in before the original, which moves two places on
RECURSIVE insertEach(_, _, _)
insertEach(children, originalElement, elements) ==
  IF elements = <<>> THEN [children |-> children, original |-> originalElement]
  ELSE insertEach(insertBefore(insertBefore(children, NewlineText, originalElement),
                               Head(elements), originalElement + 1),
                  originalElement + 2, Tail(elements))

updateJS(children, entrypoint, originalElement, bundleName) ==
  IF originalElement = 0 THEN children
  ELSE LET list == separateAssets(bundleName)
           scripts == [i \in DOMAIN list |->
                         Node("script", relative(dirname(join(Root, entrypoint)), list[i]))]
           looped == insertEach(children, originalElement, scripts)
       IN remove(looped.children, looped.original)

updateCSS(children, entrypoint, originalElement, bundleName) ==
  IF originalElement = 0 THEN children
  ELSE LET list == separateAssets(bundleName)
           links == [i \in DOMAIN list |->
                       Node("link", relative(dirname(join(Root, entrypoint)), list[i]))]
           looped == insertEach(children, originalElement, links)
       IN remove(looped.children, looped.original)

ScriptBundles == {"vendor.js", "test-support.js"}
StyleBundles == {"vendor.css", "test-support.css"}

UpdateJS ==
  /\ dom.step = "parsed"
  /\ dom.bundleName \in ScriptBundles
  /\ dom' = [dom EXCEPT !.children = updateJS(dom.children, dom.entrypoint, dom.original,
                                               dom.bundleName),
                        !.step = "updated"]
  /\ UNCHANGED <<addons, appName, declarable, missing, prevStageCache, babelMemo, babelConfigJs, adapterAutoRun,
                 entryOut, fvars, rvars, bvars, evars, impliedOut, svars>>

UpdateCSS ==
  /\ dom.step = "parsed"
  /\ dom.bundleName \in StyleBundles
  /\ dom' = [dom EXCEPT !.children = updateCSS(dom.children, dom.entrypoint, dom.original,
                                                dom.bundleName),
                        !.step = "updated"]
  /\ UNCHANGED <<addons, appName, declarable, missing, prevStageCache, babelMemo, babelConfigJs, adapterAutoRun,
                 entryOut, fvars, rvars, bvars, evars, impliedOut, svars>>

\* the children of the element that holds the vendor or test-support element
ParsedNodes ==
  { Node("script", << <<"assets">>, <<"vendor", ".js">> >>),
    Node("link", << <<"assets">>, <<"vendor", ".css">> >>),
    Node("text", << <<"\n">> >>) }

ParsedChildren == UNION {[1..k -> ParsedNodes] : k \in 0..MaxNodes}

\* the element found by findVendorScript and its like: a script for the script
\* bundles, a stylesheet link for the style bundles, or none (0)
Originals(children, bundleName) ==
  {0} \cup {i \in DOMAIN children :
              children[i].kind = (IF bundleName \in ScriptBundles THEN "script" ELSE "link")}

ParsedDocuments ==
  UNION { UNION { UNION {
    { [children |-> c, parsed |-> c, original |-> o, entrypoint |-> e, bundleName |-> b,
       step |-> "parsed"] : o \in Originals(c, b) }
    : c \in ParsedChildren } : e \in {IndexHtml, TestsIndexHtml} }
    : b \in ScriptBundles \cup StyleBundles }

InitDom ==
  /\ addons \in AddonOrders(MaxEntryAddons)
  /\ appName = "app"
  /\ adapterAutoRun = TRUE
  /\ srcFiles = NoScan
  /\ declarable = DeclarableAssets
  /\ missing = {}
  /\ dom \in ParsedDocuments
  /\ prevStageCache = "none"
  /\ babelMemo = NotComputed
  /\ babelConfigJs = NotWritten
  /\ InitBuilder
  /\ InitStage
  /\ InitNoProgram

NextDom ==
  \/ UpdateJS
  \/ UpdateCSS

SpecDom == InitDom /\ [][NextDom]_vars

----------------------------------------------------------------------------
(* The transform over one statement of one file *)

InitRewrite ==
  /\ InitAdapter
  /\ addons = <<>>
  /\ appName = "app"
  /\ adapterAutoRun = TRUE
  /\ srcFiles = NoScan
  /\ InitBuilder
  /\ InitStage
  /\ opts \in [ownName : OwnNames, basedir : Basedirs, rename : Renames]
  /\ sourceFileName \in FileNames
  /\ original \in Specifiers
  /\ sourceValue = original
  /\ adjusted = Undefined
  /\ emberCLIVanillaJobs = <<>>
  /\ shouldRewriteRequire = FALSE
  /\ rpc = "parsed"
  /\ reference \in References
  /\ firstRun = NotRun

NextRewrite ==
  \/ ProgramEnter
  \/ VisitStatement
  \/ ReferencedIdentifier
  \/ ProgramExit

SpecRewrite == InitRewrite /\ [][NextRewrite]_vars

\* the transform run again over its own output
NextRerun ==
  \/ NextRewrite
  \/ Rerun

SpecRerun == InitRewrite /\ [][NextRerun]_vars

----------------------------------------------------------------------------
(* BuildStage: the tree callbacks and the callers of ready() *)

InFlight(c) == cb[c].pc \in {"awaitPrev", "awaitInstantiate", "building"}

Building == {c \in DOMAIN cb : cb[c].pc = "building"}

\* if (!this.active)
needsInstantiate_always(builder) == TRUE

needsInstantiate(builder) == builder = 0

\* the callback runs up to its first await: prevStage.ready() when there is no
\* builder yet, active.build(treePaths) otherwise
CbStart(c) ==
  /\ cb[c].pc = "idle"
  /\ IF needsInstantiate(active)
     THEN /\ cb' = [cb EXCEPT ![c].pc = "awaitPrev"]
          /\ prevReadyCalls' = prevReadyCalls + 1
     ELSE /\ cb' = [cb EXCEPT ![c].pc = "building"]
          /\ UNCHANGED prevReadyCalls
  /\ UNCHANGED <<addons, appName, avars, adapterAutoRun, entryOut, fvars, rvars, bvars, evars, impliedOut, active, outputPath, packageCache,
                 deferReady, instances, waiters>>

\* new PackageCache(): each construction is an object of its own
NewPackageCache(n) ==
  CASE n = 1 -> "new-cache-1"
    [] n = 2 -> "new-cache-2"
    [] n = 3 -> "new-cache-3"
    [] OTHER -> "new-cache-n"

\* prevStage.ready() has resolved: keep its answer and call instantiate
CbPrevReady(c) ==
  /\ cb[c].pc = "awaitPrev"
  /\ outputPath' = "prev-output"
  /\ packageCache' = IF prevStageCache = "none" THEN NewPackageCache(instances + 1)
                     ELSE prevStageCache
  /\ instances' = instances + 1
  /\ cb' = [cb EXCEPT ![c].pc = "awaitInstantiate"]
  /\ UNCHANGED <<addons, appName, avars, adapterAutoRun, entryOut, fvars, rvars, bvars, evars, impliedOut, active, deferReady, prevReadyCalls,
                 waiters>>

\* instantiate has resolved: this.active is assigned and its build is called
CbInstantiated(c) ==
  /\ cb[c].pc = "awaitInstantiate"
  /\ active' = active + 1
  /\ cb' = [cb EXCEPT ![c].pc = "building"]
  /\ UNCHANGED <<addons, appName, avars, adapterAutoRun, entryOut, fvars, rvars, bvars, evars, impliedOut, outputPath, packageCache, deferReady,
                 instances, prevReadyCalls, waiters>>

\* active.build has resolved: the gate is resolved
CbBuildDone(c) ==
  /\ cb[c].pc = "building"
  /\ cb' = [cb EXCEPT ![c].pc = "done"]
  /\ deferReady' = TRUE
  /\ UNCHANGED <<addons, appName, avars, adapterAutoRun, entryOut, fvars, rvars, bvars, evars, impliedOut, active, outputPath, packageCache,
                 instances, prevReadyCalls, waiters>>

\* active.build has rejected: the callback rejects, the gate is left alone
CbBuildThrows(c) ==
  /\ cb[c].pc = "building"
  /\ cb' = [cb EXCEPT ![c].pc = "failed"]
  /\ UNCHANGED <<addons, appName, avars, adapterAutoRun, entryOut, fvars, rvars, bvars, evars, impliedOut, active, outputPath, packageCache,
                 deferReady, instances, prevReadyCalls, waiters>>

\* a caller enters ready() and awaits the gate
ReadyCall(w) ==
  /\ waiters[w].state = "none"
  /\ waiters' = [waiters EXCEPT ![w] = [state |-> "waiting", during |-> Building,
                                        outputPath |-> "", packageCache |-> ""]]
  /\ UNCHANGED <<addons, appName, avars, adapterAutoRun, entryOut, fvars, rvars, bvars, evars, impliedOut, active, outputPath, packageCache,
                 deferReady, cb, instances, prevReadyCalls>>

\* await this.deferReady.promise
awaitDeferReady_noWait(resolved) == TRUE

awaitDeferReady(resolved) == resolved

\* the gate is resolved: ready() returns what the stage holds
ReadyReturn(w) ==
  /\ waiters[w].state = "waiting"
  /\ awaitDeferReady(deferReady)
  /\ waiters' = [waiters EXCEPT ![w].state = "returned",
                                ![w].outputPath = outputPath,
                                ![w].packageCache = packageCache]
  /\ UNCHANGED <<addons, appName, avars, adapterAutoRun, entryOut, fvars, rvars, bvars, evars, impliedOut, active, outputPath, packageCache,
                 deferReady, cb, instances, prevReadyCalls>>

InitStageOnly ==
  /\ addons = <<>>
  /\ appName = "app"
  /\ adapterAutoRun = TRUE
  /\ srcFiles = NoScan
  /\ declarable = DeclarableAssets
  /\ missing = {}
  /\ dom = NoDocument
  /\ prevStageCache \in {"none", "prev-cache"}
  /\ babelMemo = NotComputed
  /\ babelConfigJs = NotWritten
  /\ InitBuilder
  /\ InitStage
  /\ InitNoProgram

NextStage ==
  \/ \E c \in 1..MaxCallbacks : CbStart(c)
  \/ \E c \in 1..MaxCallbacks : CbPrevReady(c)
  \/ \E c \in 1..MaxCallbacks : CbInstantiated(c)
  \/ \E c \in 1..MaxCallbacks : CbBuildDone(c)
  \/ \E c \in 1..MaxCallbacks : CbBuildThrows(c)
  \/ \E w \in 1..MaxWaiters : ReadyCall(w)
  \/ \E w \in 1..MaxWaiters : ReadyReturn(w)

\* the tree callbacks may overlap in any way
SpecStage == InitStageOnly /\ [][NextStage]_vars

\* the pipeline runs one tree callback per tick, each to its end
TickStart(c) == (\A d \in 1..MaxCallbacks : ~InFlight(d)) /\ CbStart(c)

NextTicks ==
  \/ \E c \in 1..MaxCallbacks : TickStart(c)
  \/ \E c \in 1..MaxCallbacks : CbPrevReady(c)
  \/ \E c \in 1..MaxCallbacks : CbInstantiated(c)
  \/ \E c \in 1..MaxCallbacks : CbBuildDone(c)
  \/ \E c \in 1..MaxCallbacks : CbBuildThrows(c)
  \/ \E w \in 1..MaxWaiters : ReadyCall(w)
  \/ \E w \in 1..MaxWaiters : ReadyReturn(w)

SpecTicks == InitStageOnly /\ [][NextTicks]_vars

----------------------------------------------------------------------------
(* Properties *)

Count(seq, x) == Cardinality({i \in DOMAIN seq : seq[i] = x})

Writes(path) == {k \in DOMAIN trace : trace[k].op \in {"writeFile", "copy"} /\ trace[k].path = path}

MetaWrites == Writes(PackageJson)

AfterAssetLoop == pc \in {"templateCompiler", "babelConfig", "emberEnv", "externals", "meta", "done"}

AppEntryPath == << <<"assets">>, <<appName, ".js">> >>
TestEntryPath == << <<"assets">>, <<"test", ".js">> >>

\* C1: once the asset loop of build has ended the queue is empty and every asset
\* that insertEmberApp generated (entrypoints, serialized documents) has been
\* passed to emitAsset and written; package.json is written only after them.
C1_GeneratedAssetsEmitted ==
  /\ AfterAssetLoop =>
       /\ queue = <<>>
       /\ \A i \in DOMAIN generated :
            /\ Count(processed, generated[i]) >= Count(generated, generated[i])
            /\ Writes(generated[i].relativePath) # {}
  /\ \A m \in MetaWrites : \A i \in DOMAIN generated :
       \E k \in Writes(generated[i].relativePath) :
         /\ k < m
         /\ trace[k - 1] = Event("emitAsset", generated[i].relativePath)

C1_Witness ==
  /\ pc = "done"
  /\ Len(generated) >= 3
  /\ MetaWrites # {}

\* C2: in one pass javascriptEntrypoint and testJSEntrypoint are each invoked at
\* most once; as soon as a document has been processed exactly one asset with
\* path assets/<appName>.js has been generated (at most one assets/test.js),
\* and the module script tags of every document refer to those assets.
C2_EntrypointsGeneratedOnce ==
  /\ entryCalls.app <= 1
  /\ entryCalls.test <= 1
  /\ Cardinality({i \in DOMAIN generated : generated[i].relativePath = AppEntryPath})
       = (IF docs = <<>> THEN 0 ELSE 1)
  /\ Cardinality({i \in DOMAIN generated : generated[i].relativePath = TestEntryPath}) <= 1
  /\ \A d \in DOMAIN docs :
       /\ \E t \in DOMAIN docs[d].inserted :
            /\ docs[d].inserted[t].line = "script"
            /\ docs[d].inserted[t].b = ModuleType
            /\ docs[d].inserted[t].a = AppEntryPath
       /\ \A t \in DOMAIN docs[d].inserted :
            (docs[d].inserted[t].line = "script" /\ docs[d].inserted[t].b = ModuleType) =>
              Cardinality({i \in DOMAIN generated :
                             generated[i].relativePath = docs[d].inserted[t].a}) = 1

C2_Witness ==
  /\ pc = "done"
  /\ Len(docs) >= 2
  /\ entryCalls.app = 1
  /\ entryCalls.test = 1

StepEvents ==
  {Event("updateAppJS", <<>>), Event("assets", <<>>), Event("writeFile", TemplateCompilerJs),
   Event("writeFile", BabelConfigJs), Event("writeFile", EmberEnvJs),
   Event("combineExternals", <<>>)}

\* C3: package.json is the last thing a pass writes: the namespace update, the
\* emission of every declared asset, the three auxiliary artifacts and the
\* externals computation all come before it, and a pass that threw has not
\* written it.
C3_MetadataWrittenLast ==
  /\ \A m \in MetaWrites :
       /\ m = Len(trace)
       /\ \A e \in StepEvents : \E k \in 1..(m - 1) : trace[k] = e
       /\ \A i \in DOMAIN assets : \E k \in 1..(m - 1) :
            trace[k] = Event("emitAsset", assets[i].relativePath)
       /\ queue = <<>>
  /\ pc = "aborted" => MetaWrites = {}

C3_Witness ==
  /\ pc = "aborted"
  /\ error = ThrownError
  /\ docs # <<>>
  /\ \E k \in DOMAIN trace : trace[k] = Event("combineExternals", <<>>)

IsLoader(n) == n = "loader.js"
IsFramework(n) == n = "ember-source"
IsOrdinary(n) == n \notin {"loader.js", "ember-source"}

C4_Declared(names, type) ==
  Flatten([k \in DOMAIN names |->
             IF type \in DOMAIN PkgMeta(names[k])
             THEN [i \in DOMAIN PkgMeta(names[k])[type] |->
                     << <<"out">>, <<"node_modules">>, <<names[k]>> >> \o PkgMeta(names[k])[type][i]]
             ELSE <<>>])

C4_Expected(type) ==
  (IF type = "implicit-scripts" THEN << << <<"out">>, <<"_ember_env_", ".js">> >> >> ELSE <<>>)
  \o C4_Declared(SelectSeq(addons, IsLoader), type)
  \o C4_Declared(SelectSeq(addons, IsFramework), type)
  \o C4_Declared(SelectSeq(addons, IsOrdinary), type)
  \o [i \in DOMAIN adapterImpliedAssets(type) |-> << <<"out">> >> \o adapterImpliedAssets(type)[i]]

\* C4: impliedAssets returns, for implicit-scripts, the bootstrap file first, then
\* the entries of loader.js, then those of ember-source, then those of every other
\* addon in discovery order (each addon's entries in declared order), then the
\* application's own; for the other categories the same without the bootstrap file.
C4_ImpliedAssetsOrder ==
  impliedOut.type # "" => impliedOut.result = C4_Expected(impliedOut.type)

C4_Witness ==
  /\ impliedOut.type = "implicit-scripts"
  /\ addons = <<"addon-b", "ember-source", "addon-a">>
  /\ Len(impliedOut.result) = 6

\* C5: at no time are two invocations of active.build in progress.
C5_OneBuildInFlight == Cardinality(Building) <= 1

\* C6 as stated: on every tick, a caller of ready() that started waiting while a
\* build was running has no result before that build has completed.
C6_EveryTickBlocks ==
  \A w \in DOMAIN waiters :
    waiters[w].state = "returned" => \A c \in waiters[w].during : cb[c].pc # "building"

\* C6 as amended: a caller of ready() has no result before some build call of the
\* stage has completed (and, with it, before the stage holds its builder and its
\* output path).
C6_BlocksUntilFirstBuild ==
  \A w \in DOMAIN waiters :
    waiters[w].state = "returned" =>
      /\ \E c \in DOMAIN cb : cb[c].pc = "done"
      /\ active # 0
      /\ waiters[w].outputPath = "prev-output"

C6_Witness ==
  \E w \in DOMAIN waiters :
    /\ waiters[w].state = "returned"
    /\ waiters[w].during # {}
    /\ \A c \in waiters[w].during : cb[c].pc = "done"
    /\ Cardinality({c \in DOMAIN cb : cb[c].pc = "done"}) = 1

CombineExternalsRan == \E k \in DOMAIN trace : trace[k] = Event("combineExternals", <<>>)

\* C7: when the externals of an active addon, or those of the adapter, name an
\* active addon, combineExternals reports it as unsupported and still returns
\* that name among the externals.
C7_UndeclaredAddonStaysExternal ==
  CombineExternalsRan =>
    /\ \A k \in DOMAIN addons :
         "externals" \in DOMAIN PkgMeta(addons[k]) =>
           \A i \in DOMAIN PkgMeta(addons[k])["externals"] :
             LET name == PkgMeta(addons[k])["externals"][i]
             IN name \in Range(addons) =>
                  /\ [who |-> addons[k], name |-> name] \in Range(diagnostics)
                  /\ name \in Range(externals)
    /\ \A i \in DOMAIN adapterExternals :
         adapterExternals[i] \in Range(addons) =>
           /\ [who |-> "your app", name |-> adapterExternals[i]] \in Range(diagnostics)
           /\ adapterExternals[i] \in Range(externals)

Mentions(message, tokens) ==
  \E k \in 0..(Len(message) - Len(tokens)) :
    \A i \in DOMAIN tokens : message[k + i] = tokens[i]

IncompleteDocuments ==
  {i \in DOMAIN declared : declared[i].kind = "ember"
                           /\ ~(MandatoryAnchors \subseteq declared[i].anchors)}

\* C8: when a declared document lacks a mandatory anchor the pass aborts with an
\* error that names the missing anchor and the document's relative path, and
\* package.json is not written.
C8_MissingAnchorNamed ==
  (pc \notin {"idle", "updateAppJS", "assets"} /\ IncompleteDocuments # {}) =>
    /\ pc = "aborted"
    /\ MetaWrites = {}
    /\ \E i \in IncompleteDocuments :
         /\ \E a \in MandatoryAnchors \ declared[i].anchors : Mentions(error.message, <<a>>)
         /\ Mentions(error.message, Flatten(declared[i].relativePath))

\* C9 as stated: no two assets processed by the work queue in one pass have the
\* same relative output path (taken here for the passes in which the adapter
\* itself declares no path twice and no entrypoint path).
DeclaredPathsDistinct ==
  /\ \A i, j \in DOMAIN assets : i # j => assets[i].relativePath # assets[j].relativePath
  /\ \A i \in DOMAIN assets : assets[i].relativePath \notin {AppEntryPath, TestEntryPath}

AssetWrites ==
  {k \in DOMAIN trace : /\ trace[k].op \in {"writeFile", "copy"}
                        /\ k > 1
                        /\ trace[k - 1].op = "emitAsset"}

----------------------------------------------------------------------------
(* The generated entrypoints *)

LinesOf(lines, what) == SelectSeq(lines, LAMBDA l : l.line = what)

PositionsOf(lines, what) == {i \in DOMAIN lines : lines[i].line = what}

LastAtom(p) == IF p = <<>> \/ Last(p) = <<>> THEN "" ELSE Last(Last(p))

WithoutLastAtom(p) == [p EXCEPT ![Len(p)] = SubSeq(Last(p), 1, Len(Last(p)) - 1)]

UnderTests(p) == Len(p) >= 2 /\ Head(p) = <<"tests">>

C11_IsModule(p) == LastAtom(p) \in {".js", ".hbs"} /\ ~UnderTests(p)

\* the path without its extension, when that is .js or .hbs
C11_WithoutExtension(p) == IF LastAtom(p) \in {".js", ".hbs"} THEN WithoutLastAtom(p) ELSE p

C11_WithoutJs(p) == IF LastAtom(p) = ".js" THEN WithoutLastAtom(p) ELSE p

C11_Records(files, runtimeOf) ==
  LET own == SelectSeq(files, C11_IsModule)
  IN [i \in DOMAIN own |->
        [runtime |-> << <<modulePrefix>> >> \o runtimeOf[own[i]],
         buildtime |-> << <<"..">> >> \o C11_WithoutJs(own[i])]]

C11_Defines(lines) ==
  LET d == LinesOf(lines, "define")
  IN [i \in DOMAIN d |-> [runtime |-> d[i].a, buildtime |-> d[i].b]]

\* C11: the application entrypoint has one module record for exactly the
\* namespace paths that end in .js or .hbs and are not under tests/, in
\* namespace order, each mapping <modulePrefix>/<path without its .js or .hbs
\* extension> to ../<path with only a trailing .js dropped>; the only other
\* records are the implicit modules of the addons, after them.
C11_ModuleRecords ==
  entryOut.which = "app" =>
    LET d == C11_Defines(entryOut.lines)
        e == C11_Records(entryOut.files, [p \in EntryPaths |-> C11_WithoutExtension(p)])
    IN /\ Len(d) = Len(e) + Len(gatherImplicitModules("implicit-modules"))
       /\ \A i \in DOMAIN e : d[i] = e[i]

\* what holds instead: a trailing .js and then a trailing .hbs are both removed
\* from the runtime name
C11_BothExtensions(p) == C11_WithoutExtension(C11_WithoutJs(p))

C11_RecordsAsBuilt ==
  entryOut.which = "app" =>
    LET d == C11_Defines(entryOut.lines)
        e == C11_Records(entryOut.files, [p \in EntryPaths |-> C11_BothExtensions(p)])
    IN /\ Len(d) = Len(e) + Len(gatherImplicitModules("implicit-modules"))
       /\ \A i \in DOMAIN e : d[i] = e[i]

\* C12: the application entrypoint has the auto-run line if and only if
\* adapter.autoRun() is true; when present there is one, it comes after every
\* dynamic-define call, imports the main module relative to the assets
\* directory (../app) and passes the main-module configuration.
C12_AutoRun ==
  entryOut.which = "app" =>
    LET runs == PositionsOf(entryOut.lines, "autorun")
    IN /\ (runs # {}) <=> adapterAutoRun
       /\ Cardinality(runs) <= 1
       /\ \A r \in runs :
            /\ \A k \in PositionsOf(entryOut.lines, "define") : k < r
            /\ entryOut.lines[r].a = << <<"..">>, <<"app">> >>
            /\ entryOut.lines[r].b = mainModuleConfig

C12_Witness ==
  /\ entryOut.which = "app"
  /\ adapterAutoRun
  /\ Len(LinesOf(entryOut.lines, "define")) >= 3
  /\ PositionsOf(entryOut.lines, "autorun") # {}

C12_WitnessNoAutoRun ==
  /\ entryOut.which = "app"
  /\ ~adapterAutoRun
  /\ Len(LinesOf(entryOut.lines, "define")) >= 3

C13_IsTest(p) ==
  /\ UnderTests(p)
  /\ LastAtom(p) = ".js"
  /\ Len(Last(p)) >= 2
  /\ Last(p)[Len(Last(p)) - 1] = "-test"

\* C13: the test entrypoint has one static import for each namespace path
\* under tests/ that ends in -test.js, in namespace order, and no other; the
\* imports come before the dynamic-define calls of the implicit test modules,
\* which come before the test-helper import and the TESTS_FILE_LOADED flag,
\* which are last; there is no auto-run line.
C13_TestEntrypoint ==
  entryOut.which = "test" =>
    LET lines == entryOut.lines
        tests == SelectSeq(entryOut.files, C13_IsTest)
        imports == LinesOf(lines, "import")
        n == Len(lines)
    IN /\ Len(imports) = Len(tests)
       /\ \A i \in DOMAIN tests : imports[i].a = << <<"..">> >> \o tests[i]
       /\ \A i \in PositionsOf(lines, "import"), k \in PositionsOf(lines, "define") : i < k
       /\ C11_Defines(lines) = gatherImplicitModules("implicit-test-modules")
       /\ PositionsOf(lines, "testSuffix") = {n}
       /\ PositionsOf(lines, "autorun") = {}

C13_Witness ==
  /\ entryOut.which = "test"
  /\ Len(LinesOf(entryOut.lines, "import")) >= 1
  /\ Len(LinesOf(entryOut.lines, "import")) < Len(SelectSeq(entryOut.files, UnderTests))
  /\ Len(LinesOf(entryOut.lines, "define")) >= 1

----------------------------------------------------------------------------
(* The specifier rewriter *)

HasPackageName(specifier) == specifier # Undefined /\ truthy(packageName(specifier))

IsSelfReference == HasPackageName(original) /\ packageName(original) = opts.ownName

IsRenamed == HasPackageName(original) /\ packageName(original) \in DOMAIN opts.rename

C14_Applies == rpc = "exited" /\ original # Undefined /\ ~IsSelfReference /\ ~IsRenamed

\* C14 as stated: a statement whose specifier's package name is neither
\* opts.ownName nor a key of opts.rename (or that has no package name) keeps
\* its source value through the transform.
C14_SourceValueUnchanged == C14_Applies => sourceValue = original

\* C14: for a statement whose specifier's package name is neither opts.ownName
\* nor a key of opts.rename (or that has no package name), adjustSpecifier
\* returns the specifier unchanged, and the transform leaves the source value
\* unchanged unless the specifier contains the word `templates` and does not
\* end in .hbs, in which case .hbs is appended and nothing else changes.
C14_OnlyTemplateRuleApplies ==
  C14_Applies =>
    /\ adjusted = original
    /\ IF hasTemplatesWord(original) /\ ~endsWithHbs(original)
       THEN sourceValue = concat(original, << <<".hbs">> >>)
       ELSE sourceValue = original

C14_Witness ==
  /\ C14_Applies
  /\ packageName(original) = << <<"other">> >>
  /\ opts.ownName = << <<"my-app">> >>
  /\ opts.rename # <<>>
  /\ sourceValue = original

\* the first path segment is . or .. (a bare .. counts: it names the parent)
StartsWithRelativeMarker(str) == str # Undefined /\ Head(str) \in {<<".">>, <<"..">>}

\* C15: for a specifier whose package name equals opts.ownName, whatever the
\* referencing file, adjustSpecifier returns a specifier that starts with ./
\* or ../
C15_SelfReferenceIsRelative ==
  (rpc \in {"visited", "exited"} /\ IsSelfReference) => StartsWithRelativeMarker(adjusted)

\* what holds instead: the marker is there unless the relative path starts with
\* a name whose first character is a dot
C15_UnlessDotName ==
  (rpc \in {"visited", "exited"} /\ IsSelfReference) =>
    \/ StartsWithRelativeMarker(adjusted)
    \/ (Head(adjusted) # <<>> /\ Head(Head(adjusted)) \in DotAtoms \ {".", ".."})

\* where a specifier leads from the directory of the referencing file
LeadsTo(specifier) == pathResolve(concat(pathDirname(sourceFileName), EmptyString \o specifier))

\* the specifier's package name is opts.ownName and a key of opts.rename
IsSelfAndRenamed ==
  /\ IsSelfReference
  /\ IsRenamed
  /\ truthy(opts.rename[packageName(original)])

\* C31: for a specifier whose package name equals opts.ownName and is also a
\* key of opts.rename, adjustSpecifier returns the self-reference rewrite: a
\* path that leads from the directory of the referencing file to the rest of
\* the specifier under basedir (the working directory without a basedir), and
\* not the specifier with the name replaced by its entry of the rename table.
C31_SelfReferenceWins ==
  (rpc \in {"visited", "exited"} /\ IsSelfAndRenamed) =>
    LET name == packageName(original)
        rest == SubSeq(original, Len(name) + 1, Len(original))
        base == IF truthy(opts.basedir) THEN opts.basedir ELSE Dot
    IN /\ LeadsTo(adjusted) = pathResolve(base \o rest)
       /\ firstChar(adjusted) = "."
       /\ adjusted # opts.rename[name] \o rest

C31_Witness ==
  /\ rpc = "exited"
  /\ IsSelfAndRenamed
  /\ Len(original) > 1
  /\ truthy(opts.basedir)
  /\ Head(adjusted) \in {<<".">>, <<"..">>}

\* C32: whatever adjustSpecifier did to the specifier (self-reference, rename
\* or nothing), the source value the transform leaves is the adjusted
\* specifier with .hbs appended when the adjusted specifier contains the word
\* `templates` and does not end in .hbs, and exactly the adjusted specifier
\* otherwise; an adjusted specifier that ends in .hbs is left as it is.
C32_TemplateRuleOnAdjusted ==
  (rpc = "exited" /\ original # Undefined) =>
    /\ IF hasTemplatesWord(adjusted) /\ ~endsWithHbs(adjusted)
       THEN sourceValue = SubSeq(adjusted, 1, Len(adjusted) - 1) \o <<Append(Last(adjusted), ".hbs")>>
       ELSE sourceValue = adjusted
    /\ endsWithHbs(adjusted) => sourceValue = adjusted

\* the rule has appended .hbs after a self-reference rewrite
C32_Witness ==
  /\ rpc = "exited"
  /\ IsSelfReference
  /\ adjusted # original
  /\ ~endsWithHbs(adjusted)
  /\ endsWithHbs(sourceValue)

\* the rule has appended .hbs after a rename that brought in the word
C32_WitnessRenamed ==
  /\ rpc = "exited"
  /\ ~IsSelfReference
  /\ IsRenamed
  /\ ~hasTemplatesWord(original)
  /\ endsWithHbs(sourceValue)

\* an adjusted specifier that ends in .hbs went through unchanged
C32_WitnessKept ==
  /\ rpc = "exited"
  /\ adjusted # original
  /\ endsWithHbs(adjusted)
  /\ sourceValue = adjusted

TestLoader == << <<"ember-cli-test-loader">> >>

\* C33: once the traversal has met a referenced identifier, window.require
\* stands at its place if and only if opts.ownName is ember-cli-test-loader,
\* the identifier is named require and its scope has no binding of require;
\* in every other case the identifier stands there as it was.
C33_RequireOffWindow ==
  reference.visited =>
    IF opts.ownName = TestLoader /\ reference.name = "require" /\ ~reference.hasBinding
    THEN reference.node = [type |-> "MemberExpression", name |-> "require", object |-> "window"]
    ELSE reference.node = [type |-> "Identifier", name |-> reference.name, object |-> ""]

C33_Witness ==
  /\ rpc = "exited"
  /\ opts.ownName = TestLoader
  /\ reference.name = "require"
  /\ ~reference.hasBinding
  /\ reference.node.type = "MemberExpression"

\* a bound require under the test loader is left alone
C33_WitnessBound ==
  /\ rpc = "exited"
  /\ opts.ownName = TestLoader
  /\ reference.name = "require"
  /\ reference.hasBinding
  /\ reference.node.type = "Identifier"

\* C34: the transform run again, with the same file and options, over the
\* statement it has left, leaves the source value as the first run left it.
C34_RewriteIdempotent ==
  (firstRun.ran /\ rpc = "exited") => sourceValue = firstRun.value

\* a rename whose target has a package name that the transform rewrites too
RenameChains ==
  \E name \in DOMAIN opts.rename :
    LET target == packageName(opts.rename[name])
    IN truthy(target) /\ (target = opts.ownName \/ target \in DOMAIN opts.rename)

\* the part that holds: without such a rename the second run changes nothing
C34_IdempotentUnlessChained ==
  (firstRun.ran /\ rpc = "exited" /\ ~RenameChains) => sourceValue = firstRun.value

C34_SecondRunOfRewritten ==
  /\ firstRun.ran
  /\ rpc = "exited"
  /\ ~RenameChains
  /\ firstRun.value # original
  /\ sourceValue = firstRun.value

----------------------------------------------------------------------------
(* App.build of app.ts *)

\* C16: at the end of a pass of App.build every entrypoint asset that
\* emitDOMAsset returned, and that a script tag of the document refers to, has
\* been written to the output tree.
C16_EntrypointsWritten ==
  pc = "done" => \A i \in DOMAIN generated : Writes(generated[i].relativePath) # {}

----------------------------------------------------------------------------
(* The namespace *)

\* update() has just returned in the current pass
NamespaceReturned == pc = "assets" /\ appDiffer # "none"

InSomeAddon(p) == \E i \in DOMAIN addons : p \in srcFiles[addons[i]]

\* C17: in the namespace that update() returns, every relative path that is
\* both in the app's own source directory and in an active addon's app tree
\* is in the namespace as the app's file, whatever the order of the addons and
\* whatever edits and updates came before.
C17_AppFilesWin ==
  NamespaceReturned =>
    \A p \in srcFiles[appDiffer] :
      InSomeAddon(p) =>
        /\ p \in DOMAIN differOwner
        /\ differOwner[p] = "app"
        /\ Count(appFiles, p) = 1

\* an incremental update (the namespace is not in scan order) after which a
\* path that two addons and the app all have belongs to the app
C17_Witness ==
  /\ NamespaceReturned
  /\ appFiles # scan(Range(appFiles))
  /\ Len(addons) = 2
  /\ \E p \in srcFiles[appDiffer] : InSomeAddon(p) /\ differOwner[p] = "app"
  /\ \E p \in DOMAIN differOwner : differOwner[p] = "addon-b"

UpdateEvents == {k \in DOMAIN trace : trace[k].op = "updateAppJS"}

EmitEvents == {k \in DOMAIN trace : trace[k].op \in {"emitAsset", "writeFile", "copy"}}

PastUpdate ==
  pc \in {"assets", "queue", "templateCompiler", "babelConfig", "emberEnv", "externals", "meta",
          "done"}

\* C18: one builder constructs its tracker once, in the first pass that gets
\* to updateAppJS, and never again; every pass calls update() once, before it
\* emits anything, and works on the whole file set of that tracker.
C18_TrackerLifecycle ==
  /\ differsMade <= 1
  /\ (differsMade = 0) <=> (appDiffer = "none")
  /\ Cardinality(UpdateEvents) <= 1
  /\ \A k \in EmitEvents : \E u \in UpdateEvents : u < k
  /\ PastUpdate =>
       /\ differsMade = 1
       /\ Cardinality(UpdateEvents) = 1
       /\ Range(appFiles) = DOMAIN differOwner

\* a later pass, with a tracker made in an earlier one, has come to its end
C18_Witness ==
  /\ pc = "done"
  /\ differsMade = 1
  /\ appJSSrcDir(inputPaths) # appDiffer
  /\ EmitEvents # {}

AppOwned == {p \in DOMAIN differOwner : differOwner[p] = "app"}

\* C19: in every pass the namespace is computed from the directory that
\* adapter.appJSSrcDir(inputPaths) gives in that pass.
C19_NamespaceFromCurrentPath ==
  PastUpdate =>
    /\ srcFiles[appJSSrcDir(inputPaths)] \subseteq Range(appFiles)
    /\ AppOwned \subseteq srcFiles[appJSSrcDir(inputPaths)]

\* what holds instead: the namespace is computed from the directory the
\* tracker was constructed with
C19_NamespaceFromFirstPath ==
  PastUpdate =>
    /\ srcFiles[appDiffer] \subseteq Range(appFiles)
    /\ AppOwned \subseteq srcFiles[appDiffer]

\* C20: the metadata of a pass that succeeded has version 2, the externals
\* computed in that pass, the two fixed auxiliary paths, and as asset list the
\* relative paths of the assets the adapter declared in that pass, in declared
\* order, each of them emitted.
C20_Metadata ==
  pc = "done" =>
    /\ meta.version = 2
    /\ CombineExternalsRan
    /\ meta.externals = combineExternals.externals
    /\ meta.templateCompiler = << <<"_template_compiler_", ".js">> >>
    /\ meta.babelConfig = << <<"_babel_config_", ".js">> >>
    /\ Len(meta.assets) = Len(declared)
    /\ \A i \in DOMAIN declared :
         /\ meta.assets[i] = declared[i].relativePath
         /\ Writes(meta.assets[i]) # {}
         /\ \E k \in DOMAIN processed : processed[k] = declared[i]

C20_Witness ==
  /\ pc = "done"
  /\ Len(declared) >= 2
  /\ \E i \in DOMAIN declared : declared[i].kind = "ember"
  /\ \E i \in DOMAIN declared : declared[i].kind = "on-disk"
  /\ meta.externals # <<>>
  /\ Len(processed) > Len(declared)

----------------------------------------------------------------------------
(* Faults of the environment *)

KnownKinds == {"in-memory", "on-disk", "ember"}

\* C21: once emitAsset has received an asset whose kind is none of in-memory,
\* on-disk and ember, the pass is aborted: it does not go on with the queue
\* or with the steps that lead to the metadata.
C21_UnknownKindAborts ==
  (\E i \in DOMAIN processed : processed[i].kind \notin KnownKinds) => pc = "aborted"

\* what the pass does with such an asset: it goes on to its end
C21_SkippedAndDone ==
  /\ pc = "done"
  /\ \E i \in DOMAIN processed : processed[i].kind \notin KnownKinds

\* some active dependency lists, under the key, a file that is not on disk
NamesMissingFile(key) ==
  \E k \in DOMAIN activeAddonDescendants :
    LET addon == activeAddonDescendants[k]
    IN /\ key \in DOMAIN addon.meta
       /\ \E i \in DOMAIN addon.meta[key] : join(addon.root, addon.meta[key][i]) \in missing

DocumentReceived(withTests) ==
  \E i \in DOMAIN processed :
    processed[i].kind = "ember" /\ (withTests => processed[i].includeTests)

PackageJsonWritten == \E k \in DOMAIN trace : trace[k] = Event("writeFile", PackageJson)

\* the pass has used an implied-asset list that names a missing file
C22_UsesMissingAsset ==
  \/ DocumentReceived(FALSE) /\ NamesMissingFile("implicit-scripts")
  \/ DocumentReceived(FALSE) /\ NamesMissingFile("implicit-styles")
  \/ DocumentReceived(TRUE) /\ NamesMissingFile("implicit-test-scripts")
  \/ DocumentReceived(TRUE) /\ NamesMissingFile("implicit-test-styles")

\* the pass has used an implicit-module list that names a missing file
C22_UsesMissingModule ==
  \/ entryCalls.app > 0 /\ NamesMissingFile("implicit-modules")
  \/ entryCalls.test > 0 /\ NamesMissingFile("implicit-test-modules")

\* C22: a pass that has used an implied-asset list or an implicit-module list
\* of an active dependency with an entry that names no file on disk never
\* writes package.json: it has aborted before.
C22_UnresolvedEntryAborts ==
  C22_UsesMissingAsset \/ C22_UsesMissingModule => ~PackageJsonWritten

\* the part that the code enforces: the implied-asset lists, through resolve.sync
C22_UnresolvedAssetAborts ==
  C22_UsesMissingAsset => ~PackageJsonWritten /\ pc \in {"queue", "aborted"}

C22_AssetAbortHappens ==
  /\ C22_UsesMissingAsset
  /\ pc = "aborted"
  /\ error = ResolveError

----------------------------------------------------------------------------
(* Documents and the work queue *)

Documents(seq) == SelectSeq(seq, LAMBDA a : a.kind = "ember")

\* C23: in one pass each declared document goes through insertEmberApp exactly
\* once: the documents that received the insertions are, in order, the
\* documents of the declared list taken so far, all of them once the loop is
\* over; what insertEmberApp hands back to the queue is never a document, and
\* the serialized form of each document is handed back as an in-memory asset.
C23_DocumentsInsertedOnce ==
  pc \in (Running \cup {"done"}) \ {"updateAppJS", "assets"} =>
    LET taken == SubSeq(assets, 1, IF Len(processed) < Len(assets) THEN Len(processed)
                                   ELSE Len(assets))
    IN /\ \A i \in DOMAIN generated : generated[i].kind # "ember"
       /\ taken = SubSeq(processed, 1, Len(taken))
       /\ Documents(processed) = Documents(taken)
       /\ Len(docs) = Len(Documents(taken))
       /\ \A k \in DOMAIN docs :
            /\ docs[k].relativePath = Documents(taken)[k].relativePath
            /\ Count(generated, InMemoryAsset(docs[k].relativePath, docs[k].inserted)) >= 1
       /\ pc # "queue" => Len(docs) = Len(Documents(assets))

C23_Witness ==
  /\ pc = "done"
  /\ Len(Documents(assets)) >= 2
  /\ Len(docs) = Len(Documents(assets))
  /\ \E i, j \in DOMAIN docs : docs[i].relativePath # docs[j].relativePath

TagOf(bundleName) == IF bundleName \in ScriptBundles THEN "script" ELSE "link"

\* C24: when the element of a multi-value anchor is present, the update puts
\* in its place, for each path of the aggregated list in aggregation order, a
\* newline text node followed by one tag for that path, between the siblings
\* that were before the element and those that were after it, which are left
\* as they were; the element itself is gone.
C24_OneTagPerPath ==
  dom.step = "updated" /\ dom.original # 0 =>
    LET list == separateAssets(dom.bundleName)
        o == dom.original
        n == Len(list)
        here == dirname(join(Root, dom.entrypoint))
    IN /\ Len(dom.children) = Len(dom.parsed) - 1 + 2 * n
       /\ SubSeq(dom.children, 1, o - 1) = SubSeq(dom.parsed, 1, o - 1)
       /\ SubSeq(dom.children, o + 2 * n, Len(dom.children))
            = SubSeq(dom.parsed, o + 1, Len(dom.parsed))
       /\ \A i \in 1..n :
            /\ dom.children[o + 2 * i - 2] = NewlineText
            /\ dom.children[o + 2 * i - 1] = Node(TagOf(dom.bundleName), relative(here, list[i]))

C24_Witness ==
  /\ dom.step = "updated"
  /\ dom.original = 2
  /\ Len(dom.parsed) = 3
  /\ Len(separateAssets(dom.bundleName)) >= 3
  /\ dom.entrypoint = TestsIndexHtml
  /\ \E i, j \in DOMAIN addons :
       i < j /\ scriptPriority(Package(addons[i])) > scriptPriority(Package(addons[j]))

InsertedAt(lines, anchor) == SelectSeq(lines, LAMBDA l : l.at = anchor)

\* the same count and order in AppBuilder.insertEmberApp: one insertion per
\* aggregated path at each of the two multi-value anchors
C24_BuilderTagsInOrder ==
  \A k \in DOMAIN docs :
    LET scripts == impliedAssets("implicit-scripts")
        styles == impliedAssets("implicit-styles")
    IN /\ InsertedAt(docs[k].inserted, "implicitScripts")
            = [i \in DOMAIN scripts |-> Line("script", "implicitScripts", relative(Root, scripts[i]), <<>>)]
       /\ InsertedAt(docs[k].inserted, "implicitStyles")
            = [i \in DOMAIN styles |-> Line("link", "implicitStyles", relative(Root, styles[i]), <<>>)]

----------------------------------------------------------------------------
(* BuildStage over ticks *)

Failed == {c \in DOMAIN cb : cb[c].pc = "failed"}
Done == {c \in DOMAIN cb : cb[c].pc = "done"}

\* C25: with one tree callback per tick, a tick whose build throws leaves the
\* gate as it was: the gate is resolved exactly when some build has completed,
\* and no caller of ready() has returned before that.  The builder made by
\* instantiate is kept over a failed tick: instantiate and prevStage.ready()
\* have been called once, and a tick that starts after the failure goes
\* straight to build on that instance.
C25_FailedTickKeepsBuilder ==
  /\ deferReady <=> Done # {}
  /\ \A w \in DOMAIN waiters : waiters[w].state = "returned" => Done # {}
  /\ Failed # {} =>
       /\ active = 1
       /\ instances = 1
       /\ prevReadyCalls = 1
       /\ \A c \in DOMAIN cb : cb[c].pc \in {"idle", "building", "failed", "done"}

C25_Witness ==
  /\ Failed # {}
  /\ Done # {}
  /\ instances = 1
  /\ \E w \in DOMAIN waiters : waiters[w].state = "returned"
  /\ \E w \in DOMAIN waiters : waiters[w].state = "waiting"

\* while the only build so far has thrown, a caller of ready() is pending
C25_WitnessPending ==
  /\ Failed # {}
  /\ Done = {}
  /\ ~deferReady
  /\ \E w \in DOMAIN waiters : waiters[w].state = "waiting"

\* C26: over the life of the stage, whatever the interleaving of the tree
\* callbacks, instantiate is called at most once and prevStage.ready() is
\* awaited at most once.
C26_InstantiateOnce ==
  /\ instances <= 1
  /\ prevReadyCalls <= 1

\* two callbacks that started before the builder existed have each awaited
\* prevStage.ready() and called instantiate
C26_TwoInstances ==
  /\ instances = 2
  /\ prevReadyCalls = 2
  /\ active = 2

Returned == {w \in DOMAIN waiters : waiters[w].state = "returned"}

\* C27: a call of ready() has returned only after prevStage.ready() resolved,
\* instantiate completed and some build completed without throwing; all the
\* calls that have returned carry the same outputPath and the same
\* packageCache, and both are defined.
C27_ReadyAfterBuild ==
  /\ \A w \in Returned :
       /\ prevReadyCalls >= 1
       /\ instances >= 1
       /\ active >= 1
       /\ Done # {}
       /\ waiters[w].outputPath # ""
       /\ waiters[w].packageCache # ""
  /\ \A v, w \in Returned :
       /\ waiters[v].outputPath = waiters[w].outputPath
       /\ waiters[v].packageCache = waiters[w].packageCache

\* the first half on its own: no return before prevStage.ready(), instantiate
\* and a completed build
C27_NotBeforeBuild ==
  \A w \in Returned :
    /\ prevReadyCalls >= 1
    /\ instances >= 1
    /\ active >= 1
    /\ Done # {}
    /\ waiters[w].outputPath # ""
    /\ waiters[w].packageCache # ""

\* two calls of ready() have returned different package caches
C27_TwoCaches ==
  \E v, w \in Returned : waiters[v].packageCache # waiters[w].packageCache

----------------------------------------------------------------------------
(* The work queue *)

\* C28: the queue is first in, first out: what has been processed followed by
\* what is still queued is the declared list followed by the generated assets
\* in the order of their generation; nothing is generated once the declared
\* assets are through, since no generated asset is a document, and the number
\* of turns of the loop is bounded by the declared list: at most one generated
\* asset per declared document plus the two entrypoints.
C28_QueueIsFifo ==
  /\ processed \o queue = assets \o generated
  /\ \A i \in DOMAIN generated : generated[i].kind = "in-memory"
  /\ \A i \in DOMAIN processed : i > Len(assets) => emitAsset(processed[i], appFiles, jsEntrypoints).newAssets = <<>>
  /\ Len(generated) <= Len(Documents(assets)) + 2
  /\ Len(processed) + Len(queue) <= 2 * Len(assets) + 2
  /\ AfterAssetLoop => queue = <<>>

C28_Witness ==
  /\ pc = "done"
  /\ Len(assets) >= 2
  /\ assets[1].kind = "ember"
  /\ assets[Len(assets)].kind = "on-disk"
  /\ Len(generated) >= 2
  /\ processed = assets \o generated

----------------------------------------------------------------------------
(* What a pass takes over from the pass before it *)

InPass == pc \in {"queue", "templateCompiler", "babelConfig", "emberEnv", "externals", "meta"}

\* C29: the entrypoint cache of a pass is empty until the pass emits its first
\* asset, and whatever it holds afterwards was generated in this pass from
\* this pass's namespace and this pass's adapter answers; the tracker is what
\* gives the namespace, and the builder holds its memoized babel config from
\* the first pass that wrote it.
C29_FreshEntrypoints ==
  /\ InPass /\ processed = <<>> => jsEntrypoints = EmptyCache
  /\ InPass =>
       /\ \A key \in DOMAIN jsEntrypoints :
            /\ key \in {AppEntryPath, TestEntryPath}
            /\ key = AppEntryPath => jsEntrypoints[key] = javascriptEntrypoint(appName, appFiles)
            /\ key = TestEntryPath => jsEntrypoints[key] = testJSEntrypoint(appFiles)
            /\ \E i \in DOMAIN generated : generated[i] = jsEntrypoints[key]
       /\ appDiffer # "none"
       /\ appFiles = differUpdate(appDiffer, differSeen, differOwner, appFiles, srcFiles).files
  /\ pc \in {"emberEnv", "externals", "meta", "done"} => babelMemo.computed

C29_Witness ==
  /\ pc = "meta"
  /\ ~adapterAutoRun
  /\ babelMemo.minusOne # <<>>
  /\ AppEntryPath \in DOMAIN jsEntrypoints
  /\ TestEntryPath \in DOMAIN jsEntrypoints
  /\ appFiles # <<>>

\* C29 as stated: moreover nothing but the tracker is carried into a pass, so
\* that a pass starts with a builder that has no config of an earlier pass.
C29_OnlyTrackerCarried ==
  /\ C29_FreshEntrypoints
  /\ pc = "updateAppJS" => babelMemo = NotComputed

----------------------------------------------------------------------------
(* Test insertions *)

NonTestInsertions ==
  LET scripts == impliedAssets("implicit-scripts")
      styles == impliedAssets("implicit-styles")
  IN <<Line("script", "javascript", AppEntryPath, ModuleType),
       Line("link", "styles", << <<"assets">>, <<appName, ".css">> >>, <<>>)>>
     \o [i \in DOMAIN scripts |-> Line("script", "implicitScripts", relative(Root, scripts[i]), <<>>)]
     \o [i \in DOMAIN styles |-> Line("link", "implicitStyles", relative(Root, styles[i]), <<>>)]

TestInsertions ==
  LET scripts == impliedAssets("implicit-test-scripts")
      styles == impliedAssets("implicit-test-styles")
  IN <<Line("script", "testJavascript", TestEntryPath, ModuleType)>>
     \o [i \in DOMAIN scripts |->
           Line("script", "implicitTestScripts", relative(Root, scripts[i]), <<>>)]
     \o [i \in DOMAIN styles |->
           Line("link", "implicitTestStyles", relative(Root, styles[i]), <<>>)]

TestRequested == \E i \in DOMAIN processed : processed[i].kind = "ember" /\ processed[i].includeTests

\* C30: a document that does not request tests receives the non-test
\* insertions and nothing else, whether or not it has the test anchors, and
\* while no document of the pass has requested tests testJSEntrypoint has not
\* been called and nothing but the app entrypoint and the serialized
\* documents has been enqueued; a document that requests tests receives,
\* after the non-test insertions, the test script tag, then the implicit test
\* scripts, then the implicit test styles.
C30_TestsOnlyOnRequest ==
  /\ \A k \in DOMAIN docs :
       docs[k].inserted = IF docs[k].includeTests THEN NonTestInsertions \o TestInsertions
                          ELSE NonTestInsertions
  /\ ~TestRequested =>
       /\ entryCalls.test = 0
       /\ \A i \in DOMAIN generated :
            \/ generated[i] = javascriptEntrypoint(appName, appFiles)
            \/ \E k \in DOMAIN docs :
                 generated[i] = InMemoryAsset(docs[k].relativePath, NonTestInsertions)

C30_Witness ==
  /\ pc = "done"
  /\ \E k \in DOMAIN docs : docs[k].includeTests /\ Len(docs[k].inserted) > Len(NonTestInsertions) + 2
  /\ \E k \in DOMAIN docs : ~docs[k].includeTests
  /\ \E i \in DOMAIN processed :
       /\ processed[i].kind = "ember"
       /\ ~processed[i].includeTests
       /\ OptionalAnchors \subseteq processed[i].anchors

\* a pass whose only document has the test anchors and requests no tests
C30_WitnessNoTests ==
  /\ pc = "done"
  /\ docs # <<>>
  /\ ~TestRequested
  /\ \E i \in DOMAIN processed : OptionalAnchors \subseteq processed[i].anchors

----------------------------------------------------------------------------
(* The transform configuration on disk *)

Occurrences(seq, x) == Cardinality({i \in DOMAIN seq : seq[i] = x})

\* C35: in every pass of one builder the config written to _babel_config_.js
\* has the same plugins: those of the adapter with each synthetic plugin under
\* its absolute path below the output root, followed by the specifier
\* rewriter, once; no entry is added, lost or left under its synthetic name.
C35_SameConfigEveryPass ==
  babelConfigJs # NotWritten =>
    /\ Occurrences(babelConfigJs, OwnPlugin) = 1
    /\ \A i \in DOMAIN adapterBabelConfig.syntheticPlugins :
         LET name == adapterBabelConfig.syntheticPlugins[i]
         IN /\ Occurrences(babelConfigJs, name) = 0
            /\ Occurrences(babelConfigJs, join(Root, name)) = 1
    /\ Len(babelConfigJs) = Len(adapterBabelConfig.plugins) + 1
    /\ \A i \in DOMAIN adapterBabelConfig.plugins :
         adapterBabelConfig.plugins[i] \notin Range(adapterBabelConfig.syntheticPlugins)
           => babelConfigJs[i] = adapterBabelConfig.plugins[i]

\* a pass after the first has written the config
C35_Witness ==
  /\ pc = "done"
  /\ babelMemo.minusOne # <<>>
  /\ babelConfigJs # NotWritten
  /\ Last(babelConfigJs) = OwnPlugin

----------------------------------------------------------------------------
(* Runtime names of the application entrypoint *)

\* the dynamic-define calls of the entrypoint that come from the namespace:
\* the first ones, one per module path
NamespaceDefines ==
  LET own == SelectSeq(entryOut.files, isAppModule)
  IN SubSeq(C11_Defines(entryOut.lines), 1, Len(own))

\* C36: in a generated application entrypoint no two dynamic-define calls that
\* come from the namespace define the same runtime name.
C36_DistinctRuntimeNames ==
  entryOut.which = "app" =>
    \A i, j \in DOMAIN NamespaceDefines :
      i # j => NamespaceDefines[i].runtime # NamespaceDefines[j].runtime

\* a script and a template with the same path up to the extension are both
\* defined under one runtime name, from two different files
C36_ScriptAndTemplateShareName ==
  /\ entryOut.which = "app"
  /\ \E i, j \in DOMAIN NamespaceDefines :
       /\ i # j
       /\ NamespaceDefines[i].runtime = NamespaceDefines[j].runtime
       /\ NamespaceDefines[i].buildtime # NamespaceDefines[j].buildtime

====
